---- MODULE Spec2Model ----
(***************************************************************************)
(* Customer Account authentication of the headless storefront template:   *)
(* OAuth 2.0 authorization-code flow with PKCE, the session-backed token  *)
(* store with lazy refresh, and the route guards built on it.             *)
(*                                                                         *)
(* A request is one loader run.  Every request works on its own copy of   *)
(* the cookie session (loaded when the request starts) and the browser    *)
(* cookie is replaced when a response carries Set-Cookie.  A handler is   *)
(* cut into steps at its network awaits; the wall clock may advance       *)
(* between any two steps.                                                 *)
(***************************************************************************)
EXTENDS Integers, Sequences, FiniteSets, TLC

VARIABLES
    cookie,     \* the session stored in the browser cookie (key -> value)
    now,        \* Date.now(), epoch milliseconds
    attempts,   \* authorization attempts started so far (fresh verifier/state/nonce)
    issued,     \* token responses issued by the provider so far (fresh tokens)
    env,        \* the deployment's environment variables (which ones are set)
    req         \* the requests in flight, one record per slot

vars == <<cookie, now, attempts, issued, env, req>>

(***************************************************************************)
(* Bounds of the model.                                                    *)
(***************************************************************************)
ClockStart == 1000
TickMs == 500
MaxClock == 3000
MaxAttempts == 2
MaxIssued == 2
MaxExpiresIn == 1

Reqs == {"r1", "r2"}

(***************************************************************************)
(* Session keys and the session collaborator (get / set / unset / has).   *)
(***************************************************************************)
KEY_CODE_VERIFIER == "customer_code_verifier"
KEY_STATE == "customer_state"
KEY_NONCE == "customer_nonce"
KEY_ACCESS_TOKEN == "customer_access_token"
KEY_REFRESH_TOKEN == "customer_refresh_token"
KEY_ID_TOKEN == "customer_id_token"
KEY_EXPIRES_AT == "customer_expires_at"

SESSION_KEYS == {KEY_CODE_VERIFIER, KEY_STATE, KEY_NONCE, KEY_ACCESS_TOKEN,
                 KEY_REFRESH_TOKEN, KEY_ID_TOKEN, KEY_EXPIRES_AT}

TokenKeys == {KEY_ACCESS_TOKEN, KEY_REFRESH_TOKEN, KEY_ID_TOKEN, KEY_EXPIRES_AT}

FlowKeys == {KEY_CODE_VERIFIER, KEY_STATE, KEY_NONCE}

EmptySession == [k \in {} |-> ""]

SessionHas(s, k) == k \in DOMAIN s

SessionSet(s, k, v) == [x \in (DOMAIN s) \cup {k} |-> IF x = k THEN v ELSE s[x]]

SessionUnset(s, k) == [x \in (DOMAIN s) \ {k} |-> s[x]]

\* JavaScript truthiness of session.get(k): undefined, "" and 0 are falsy.
\* An identity token is kept as the list of its '.'-separated segments, so
\* the empty string is the one-segment list <<"">>.
Truthy(s, k) ==
    /\ SessionHas(s, k)
    /\ IF k = KEY_EXPIRES_AT THEN s[k] # 0
       ELSE IF k = KEY_ID_TOKEN THEN s[k] # <<"">>
       ELSE s[k] # ""

(***************************************************************************)
(* Optional values: <<>> is null/undefined, <<v>> is the value v.          *)
(***************************************************************************)
None == <<>>

Some(v) == <<v>>

\* !x of JavaScript for a query parameter: null and "" are falsy.
Falsy(x) == x = None \/ x = Some("")

(***************************************************************************)
(* PKCE and security parameters.  The n-th authorization attempt draws    *)
(* fresh random values, written v<n>, <n>s and n<n>.                       *)
(***************************************************************************)
generateCodeVerifier(n) == "v" \o ToString(n)

\* the "plain" challenge method: the challenge is the verifier itself
generateCodeChallengePlain(codeVerifier) == codeVerifier

generateCodeChallenge(codeVerifier) == "S256(" \o codeVerifier \o ")"

generateState(n) == ToString(n) \o "s"

generateNonce(n) == "n" \o ToString(n)

StateValues == {generateState(n) : n \in 1..MaxAttempts}

NonceValues == {generateNonce(n) : n \in 1..MaxAttempts}

(***************************************************************************)
(* Identity tokens.  A token is the list of its '.'-separated segments    *)
(* (token.split('.')).  A segment is the base64 text of a JSON object, or *)
(* text that atob / JSON.parse reject.                                    *)
(***************************************************************************)
HeaderSegment == "b64{alg}"

SignatureSegment == "sig"

BadSegment == "%%"

\* btoa(JSON.stringify(payload)) for a payload with or without a nonce claim
EncodePayload(nonce) ==
    IF nonce = None THEN "b64{}" ELSE "b64{nonce:" \o nonce[1] \o "}"

PayloadClaims == {None} \cup {Some(n) : n \in NonceValues}

\* JSON.parse(atob(segment)) succeeds
Decodable(segment) ==
    \/ segment = HeaderSegment
    \/ \E c \in PayloadClaims : segment = EncodePayload(c)

\* the nonce claim of JSON.parse(atob(segment)); undefined when there is none
SegmentNonce(segment) ==
    IF \E n \in NonceValues : segment = EncodePayload(Some(n))
    THEN Some(CHOOSE n \in NonceValues : segment = EncodePayload(Some(n)))
    ELSE None

\* decodeJwt throws: a missing or empty segment among the first three, or a
\* header / payload that does not decode
decodeJwtThrows(token) ==
    \/ Len(token) < 3
    \/ token[1] = "" \/ token[2] = "" \/ token[3] = ""
    \/ ~Decodable(token[1])
    \/ ~Decodable(token[2])

\* decodeJwt(idToken).payload.nonce, for a token decodeJwt accepts
getNonce(idToken) == SegmentNonce(idToken[2])

Jwt(nonce) == <<HeaderSegment, EncodePayload(nonce), SignatureSegment>>

\* the identity tokens a token response may carry
IdTokens ==
    {Jwt(c) : c \in PayloadClaims}
    \cup {<<HeaderSegment, EncodePayload(Some(generateNonce(1)))>>,
          <<HeaderSegment, BadSegment, SignatureSegment>>}

(***************************************************************************)
(* The clock.                                                              *)
(***************************************************************************)
\* isTokenExpired with a skew of one tick: expired before expiresAt
isTokenExpiredEarly(expiresAt) == now + TickMs >= expiresAt

\* isTokenExpired with a token still counted as fresh at expiresAt itself
isTokenExpiredAfter(expiresAt) == now > expiresAt

isTokenExpired(expiresAt) == now >= expiresAt

\* calculateExpiresAt that stores the lifetime, not the absolute timestamp
calculateExpiresAtRelative(expiresIn) == expiresIn * 1000

calculateExpiresAt(expiresIn) == now + expiresIn * 1000

(***************************************************************************)
(* Token session store (customer-session).                                 *)
(***************************************************************************)
\* getCustomerTokens that looks at the access token and the expiry only
getCustomerTokensAccessOnly(session) ==
    IF \/ ~Truthy(session, KEY_ACCESS_TOKEN)
       \/ ~Truthy(session, KEY_EXPIRES_AT)
    THEN None
    ELSE Some([accessToken  |-> session[KEY_ACCESS_TOKEN],
               expiresAt    |-> session[KEY_EXPIRES_AT]])

getCustomerTokens(session) ==
    IF \/ ~Truthy(session, KEY_ACCESS_TOKEN)
       \/ ~Truthy(session, KEY_REFRESH_TOKEN)
       \/ ~Truthy(session, KEY_ID_TOKEN)
       \/ ~Truthy(session, KEY_EXPIRES_AT)
    THEN None
    ELSE Some([accessToken  |-> session[KEY_ACCESS_TOKEN],
               refreshToken |-> session[KEY_REFRESH_TOKEN],
               idToken      |-> session[KEY_ID_TOKEN],
               expiresAt    |-> session[KEY_EXPIRES_AT]])

\* isCustomerAuthenticated that looks at the presence of the token set only
isCustomerAuthenticatedNoExpiry(session) == getCustomerTokens(session) # None

isCustomerAuthenticated(session) ==
    LET tokens == getCustomerTokens(session)
    IN  IF tokens = None THEN FALSE ELSE ~isTokenExpired(tokens[1].expiresAt)

\* clearCustomerSession that leaves the authorization attempt's keys
clearCustomerSessionTokensOnly(session) ==
    SessionUnset(SessionUnset(SessionUnset(SessionUnset(session,
        KEY_ACCESS_TOKEN), KEY_REFRESH_TOKEN), KEY_ID_TOKEN), KEY_EXPIRES_AT)

clearCustomerSession(session) ==
    SessionUnset(SessionUnset(SessionUnset(SessionUnset(SessionUnset(
        SessionUnset(SessionUnset(session, KEY_ACCESS_TOKEN), KEY_REFRESH_TOKEN),
        KEY_ID_TOKEN), KEY_EXPIRES_AT), KEY_CODE_VERIFIER), KEY_STATE), KEY_NONCE)

\* the Date.now() values isCustomerAuthenticated reads: none without a
\* complete token set
ClockReads(session) ==
    IF getCustomerTokens(session) = None THEN <<>> ELSE <<now>>

\* the three logical states of the store, at the current clock
Unauthenticated(session) == getCustomerTokens(session) = None

Authenticated(session) ==
    /\ getCustomerTokens(session) # None
    /\ now < session[KEY_EXPIRES_AT]

Expired(session) ==
    /\ getCustomerTokens(session) # None
    /\ now >= session[KEY_EXPIRES_AT]

(***************************************************************************)
(* Requests.  op is the loader or guard the request runs, pc its position. *)
(***************************************************************************)
Ops == {"authorize", "callback", "logout", "login", "getValidAccessToken",
        "getAuthenticatedToken", "optionalAuth", "requireCustomerAuth",
        "redirectIfAuthenticated"}

NoParams == [code |-> None, state |-> None, error |-> None]

NoResult == [kind |-> "none"]

Redirect(to) == [kind |-> "redirect", to |-> to]

ThrowRedirect(to) == [kind |-> "throw_redirect", to |-> to]

ThrowError(message) == [kind |-> "throw_error", message |-> message]

Return(value) == [kind |-> "return", value |-> value]

LoginError(code) == Redirect("/account/login?error=" \o code)

Idle ==
    [op |-> "none", pc |-> "idle", session |-> EmptySession, loaded |-> EmptySession,
     isPending |-> FALSE, committed |-> FALSE, params |-> NoParams,
     resp |-> None, sent |-> <<>>, reads |-> <<>>, result |-> NoResult]

\* the query parameters a callback request may carry
CodeValues == {None, Some(""), Some("c1")}

StateParams == {None, Some("")} \cup {Some(v) : v \in StateValues}

ErrorValues == {None, Some(""), Some("access_denied")}

CallbackParams == [code : CodeValues, state : StateParams, error : ErrorValues]

\* the browser sends a request: the session is read from the Cookie header
\* (AppSession.init)
Start(r, op, params) ==
    /\ req[r].pc = "idle"
    /\ req' = [req EXCEPT ![r] =
                  [Idle EXCEPT !.op = op, !.pc = "run", !.params = params,
                               !.session = cookie, !.loaded = cookie]]
    /\ UNCHANGED <<cookie, now, attempts, issued, env>>

StartRequest(r) ==
    \/ \E p \in CallbackParams : Start(r, "callback", p)
    \/ \E op \in Ops \ {"callback"} : Start(r, op, NoParams)

\* requests of one session handled one at a time: the next request is sent
\* when the response of the previous one has arrived
SequentialStart(r) ==
    /\ \A q \in Reqs : req[q].pc = "idle"
    /\ StartRequest(r)

\* variant: a response whose session was loaded from an older cookie does
\* not replace the cookie
RespondUnlessStale(r) ==
    /\ req[r].pc = "done"
    /\ cookie' = IF (req[r].isPending \/ req[r].committed) /\ cookie = req[r].loaded
                 THEN req[r].session ELSE cookie
    /\ req' = [req EXCEPT ![r] = Idle]
    /\ UNCHANGED <<now, attempts, issued, env>>

\* the response reaches the browser: server.ts commits a pending session,
\* and a Set-Cookie header replaces the cookie
Respond(r) ==
    /\ req[r].pc = "done"
    /\ cookie' = IF req[r].isPending \/ req[r].committed
                 THEN req[r].session ELSE cookie
    /\ req' = [req EXCEPT ![r] = Idle]
    /\ UNCHANGED <<now, attempts, issued, env>>

Tick ==
    /\ now + TickMs <= MaxClock
    /\ now' = now + TickMs
    /\ UNCHANGED <<cookie, attempts, issued, env, req>>

\* a handler step that ends the handler: the session as the step leaves it,
\* whether the step used session.set / session.unset, and the outcome
Finish(r, session, wrote, result) ==
    req' = [req EXCEPT ![r].pc = "done",
                       ![r].session = session,
                       ![r].isPending = req[r].isPending \/ wrote,
                       ![r].result = result]

\* as Finish, after `await session.commit()` put the session in Set-Cookie
FinishCommitted(r, session, result) ==
    req' = [req EXCEPT ![r].pc = "done",
                       ![r].session = session,
                       ![r].isPending = FALSE,
                       ![r].committed = TRUE,
                       ![r].result = result]

\* a step that sends its request a second time
AwaitResend(r, session, wrote, message, pc) ==
    req' = [req EXCEPT ![r].pc = pc,
                       ![r].session = session,
                       ![r].isPending = req[r].isPending \/ wrote,
                       ![r].sent = Append(Append(req[r].sent, message), message)]

\* a handler step that sends a request and awaits the answer at pc
Await(r, session, wrote, message, pc) ==
    req' = [req EXCEPT ![r].pc = pc,
                       ![r].session = session,
                       ![r].isPending = req[r].isPending \/ wrote,
                       ![r].sent = Append(req[r].sent, message)]

At(r, op, pc) == req[r].op = op /\ req[r].pc = pc

(***************************************************************************)
(* /account/authorize: starts an authorization attempt.                    *)
(***************************************************************************)
AuthorizationUrl(state, nonce, codeChallenge) ==
    [kind |-> "redirect", to |-> "authorization_endpoint",
     scope |-> "openid email customer-account-api:full",
     response_type |-> "code", state |-> state, nonce |-> nonce,
     code_challenge |-> codeChallenge, code_challenge_method |-> "S256"]

\* storing that leaves the nonce out
AuthorizeStoreNoNonce(session, codeVerifier, state, nonce) ==
    SessionSet(SessionSet(session,
        KEY_CODE_VERIFIER, codeVerifier),
        KEY_STATE, state)

\* storing that keeps the values of an attempt already in the session
AuthorizeStoreKeepsFirst(session, codeVerifier, state, nonce) ==
    IF SessionHas(session, KEY_STATE)
    THEN session
    ELSE SessionSet(SessionSet(SessionSet(session,
             KEY_CODE_VERIFIER, codeVerifier),
             KEY_STATE, state),
             KEY_NONCE, nonce)

\* storing that puts the challenge under the code verifier key
AuthorizeStoreChallenge(session, codeVerifier, state, nonce) ==
    SessionSet(SessionSet(SessionSet(session,
        KEY_CODE_VERIFIER, generateCodeChallenge(codeVerifier)),
        KEY_STATE, state),
        KEY_NONCE, nonce)

\* storing that starts from an empty session
AuthorizeStoreFresh(session, codeVerifier, state, nonce) ==
    SessionSet(SessionSet(SessionSet(EmptySession,
        KEY_CODE_VERIFIER, codeVerifier),
        KEY_STATE, state),
        KEY_NONCE, nonce)

\* "Store in session"
AuthorizeStore(session, codeVerifier, state, nonce) ==
    SessionSet(SessionSet(SessionSet(session,
        KEY_CODE_VERIFIER, codeVerifier),
        KEY_STATE, state),
        KEY_NONCE, nonce)

AuthorizeLoader(r) ==
    /\ At(r, "authorize", "run")
    /\ IF ~env.shopDomain
       THEN /\ Finish(r, req[r].session, FALSE,
                      ThrowError("PUBLIC_STORE_DOMAIN environment variable is not set"))
            /\ UNCHANGED attempts
       ELSE IF ~env.clientId
       THEN /\ Finish(r, req[r].session, FALSE,
                      ThrowError("CUSTOMER_ACCOUNT_CLIENT_ID environment variable is not set"))
            /\ UNCHANGED attempts
       ELSE IF ~env.shopId
       THEN /\ Finish(r, req[r].session, FALSE,
                      ThrowError("SHOP_ID could not be determined from environment variables"))
            /\ UNCHANGED attempts
       ELSE /\ attempts < MaxAttempts
            /\ attempts' = attempts + 1
            /\ LET codeVerifier == generateCodeVerifier(attempts')
                   codeChallenge == generateCodeChallenge(codeVerifier)
                   state == generateState(attempts')
                   nonce == generateNonce(attempts')
                   session == AuthorizeStore(req[r].session, codeVerifier, state, nonce)
               IN  FinishCommitted(r, session,
                                   AuthorizationUrl(state, nonce, codeChallenge))
    /\ UNCHANGED <<cookie, now, issued, env>>

(***************************************************************************)
(* /account/authorize/callback: validates, exchanges the code, persists.  *)
(***************************************************************************)
\* variant: the state is validated before the provider's error parameter is
\* looked at
CallbackCheckStateFirst(params, session) ==
    IF Falsy(params.code) \/ Falsy(params.state) THEN "invalid_callback"
    ELSE IF ~(SessionHas(session, KEY_STATE) /\ params.state[1] = session[KEY_STATE])
    THEN "invalid_state"
    ELSE IF ~Falsy(params.error) THEN "provider_error"
    ELSE IF ~Truthy(session, KEY_CODE_VERIFIER) THEN "missing_verifier"
    ELSE IF ~env.shopDomain \/ ~env.clientId THEN "env_not_set"
    ELSE IF ~env.shopId THEN "shop_id_unknown"
    ELSE "exchange"

\* callback checks without the comparison of the state parameter with the
\* stored state
CallbackCheckNoState(params, session) ==
    IF ~Falsy(params.error) THEN "provider_error"
    ELSE IF Falsy(params.code) \/ Falsy(params.state) THEN "invalid_callback"
    ELSE IF ~Truthy(session, KEY_CODE_VERIFIER) THEN "missing_verifier"
    ELSE IF ~env.shopDomain \/ ~env.clientId THEN "env_not_set"
    ELSE IF ~env.shopId THEN "shop_id_unknown"
    ELSE "exchange"

\* CallbackCheck with the state comparison skipped when no state is stored
CallbackCheckLaxState(params, session) ==
    IF ~Falsy(params.error) THEN "provider_error"
    ELSE IF Falsy(params.code) \/ Falsy(params.state) THEN "invalid_callback"
    ELSE IF SessionHas(session, KEY_STATE) /\ params.state[1] # session[KEY_STATE]
    THEN "invalid_state"
    ELSE IF ~Truthy(session, KEY_CODE_VERIFIER) THEN "missing_verifier"
    ELSE IF ~env.shopDomain \/ ~env.clientId THEN "env_not_set"
    ELSE IF ~env.shopId THEN "shop_id_unknown"
    ELSE "exchange"

\* CallbackCheck with only the code tested for presence
CallbackCheckCodeOnly(params, session) ==
    IF ~Falsy(params.error) THEN "provider_error"
    ELSE IF Falsy(params.code) THEN "invalid_callback"
    ELSE IF \/ Falsy(params.state)
            \/ ~(SessionHas(session, KEY_STATE) /\ params.state[1] = session[KEY_STATE])
    THEN "invalid_state"
    ELSE IF ~Truthy(session, KEY_CODE_VERIFIER) THEN "missing_verifier"
    ELSE IF ~env.shopDomain \/ ~env.clientId THEN "env_not_set"
    ELSE IF ~env.shopId THEN "shop_id_unknown"
    ELSE "exchange"

\* the checks made before the code exchange, in the loader's order; "exchange"
\* when all pass
CallbackCheck(params, session) ==
    IF ~Falsy(params.error) THEN "provider_error"
    ELSE IF Falsy(params.code) \/ Falsy(params.state) THEN "invalid_callback"
    ELSE IF ~(SessionHas(session, KEY_STATE) /\ params.state[1] = session[KEY_STATE])
    THEN "invalid_state"
    ELSE IF ~Truthy(session, KEY_CODE_VERIFIER) THEN "missing_verifier"
    ELSE IF ~env.shopDomain \/ ~env.clientId THEN "env_not_set"
    ELSE IF ~env.shopId THEN "shop_id_unknown"
    ELSE "exchange"

TokenRequest(code, codeVerifier) ==
    [to |-> "token_endpoint", grant_type |-> "authorization_code",
     code |-> code, code_verifier |-> codeVerifier]

CallbackLoader(r) ==
    /\ At(r, "callback", "run")
    /\ LET params == req[r].params
           session == req[r].session
           check == CallbackCheck(params, session)
       IN  IF check = "provider_error"
           THEN Finish(r, session, FALSE, LoginError(params.error[1]))
           ELSE IF check \in {"invalid_callback", "invalid_state", "missing_verifier"}
           THEN Finish(r, session, FALSE, LoginError(check))
           ELSE IF check = "env_not_set"
           THEN Finish(r, session, FALSE,
                       ThrowError("Required environment variables not set"))
           ELSE IF check = "shop_id_unknown"
           THEN Finish(r, session, FALSE,
                       ThrowError("SHOP_ID could not be determined from environment variables"))
           ELSE Await(r, session, FALSE,
                      TokenRequest(params.code[1], session[KEY_CODE_VERIFIER]),
                      "exchange")
    /\ UNCHANGED <<cookie, now, attempts, issued, env>>

\* the answers of the token endpoint: a rejection (or a failed fetch), or the
\* n-th token response
Rejected == [ok |-> FALSE]

ExpiresInValues == 0..MaxExpiresIn

AccessTokenResponse(n, idToken, expiresIn) ==
    [ok |-> TRUE, access_token |-> "a" \o ToString(n),
     refresh_token |-> "r" \o ToString(n),
     id_token |-> idToken, expires_in |-> expiresIn]

\* CallbackOutcome without the nonce comparison
CallbackOutcomeNoNonce(session, tokenResponse) ==
    IF /\ Truthy(session, KEY_NONCE)
       /\ decodeJwtThrows(tokenResponse.id_token)
    THEN "token_exchange_failed"
    ELSE "store"

\* what the callback does with a successful token response
CallbackOutcome(session, tokenResponse) ==
    IF /\ Truthy(session, KEY_NONCE)
       /\ decodeJwtThrows(tokenResponse.id_token)
    THEN "token_exchange_failed"
    ELSE IF /\ Truthy(session, KEY_NONCE)
            /\ getNonce(tokenResponse.id_token) # Some(session[KEY_NONCE])
    THEN "invalid_nonce"
    ELSE "store"

\* variant: stores the tokens and leaves verifier, state and nonce in place
CallbackStoreKeepsFlow(session, tokenResponse) ==
    LET expiresAt == calculateExpiresAt(tokenResponse.expires_in)
        s1 == SessionSet(session, KEY_ACCESS_TOKEN, tokenResponse.access_token)
        s2 == SessionSet(s1, KEY_REFRESH_TOKEN, tokenResponse.refresh_token)
        s3 == SessionSet(s2, KEY_ID_TOKEN, tokenResponse.id_token)
    IN  SessionSet(s3, KEY_EXPIRES_AT, expiresAt)

\* CallbackStore whose clean-up forgets the nonce
CallbackStoreKeepsNonce(session, tokenResponse) ==
    LET expiresAt == calculateExpiresAt(tokenResponse.expires_in)
        s1 == SessionSet(session, KEY_ACCESS_TOKEN, tokenResponse.access_token)
        s2 == SessionSet(s1, KEY_REFRESH_TOKEN, tokenResponse.refresh_token)
        s3 == SessionSet(s2, KEY_ID_TOKEN, tokenResponse.id_token)
        s4 == SessionSet(s3, KEY_EXPIRES_AT, expiresAt)
    IN  SessionUnset(SessionUnset(s4, KEY_CODE_VERIFIER), KEY_STATE)

\* CallbackStore with the access token and the refresh token of the response
\* written under each other's key
CallbackStoreSwapped(session, tokenResponse) ==
    LET expiresAt == calculateExpiresAt(tokenResponse.expires_in)
        s1 == SessionSet(session, KEY_ACCESS_TOKEN, tokenResponse.refresh_token)
        s2 == SessionSet(s1, KEY_REFRESH_TOKEN, tokenResponse.access_token)
        s3 == SessionSet(s2, KEY_ID_TOKEN, tokenResponse.id_token)
        s4 == SessionSet(s3, KEY_EXPIRES_AT, expiresAt)
    IN  SessionUnset(SessionUnset(SessionUnset(s4, KEY_CODE_VERIFIER),
                                  KEY_STATE), KEY_NONCE)

\* lines 98-110 of the callback: store the tokens, drop the temporary data
CallbackStore(session, tokenResponse) ==
    LET expiresAt == calculateExpiresAt(tokenResponse.expires_in)
        s1 == SessionSet(session, KEY_ACCESS_TOKEN, tokenResponse.access_token)
        s2 == SessionSet(s1, KEY_REFRESH_TOKEN, tokenResponse.refresh_token)
        s3 == SessionSet(s2, KEY_ID_TOKEN, tokenResponse.id_token)
        s4 == SessionSet(s3, KEY_EXPIRES_AT, expiresAt)
    IN  SessionUnset(SessionUnset(SessionUnset(s4, KEY_CODE_VERIFIER),
                                  KEY_STATE), KEY_NONCE)

\* variant: the catch block clears the session, as getValidAccessToken does
CallbackExchangeFailedClears(r) ==
    /\ At(r, "callback", "exchange")
    /\ req' = [req EXCEPT ![r].pc = "done", ![r].resp = Some(Rejected),
                          ![r].session = clearCustomerSession(req[r].session),
                          ![r].isPending = TRUE,
                          ![r].result = LoginError("token_exchange_failed")]
    /\ UNCHANGED <<cookie, now, attempts, issued, env>>

CallbackExchangeFailed(r) ==
    /\ At(r, "callback", "exchange")
    /\ req' = [req EXCEPT ![r].pc = "done", ![r].resp = Some(Rejected),
                          ![r].result = LoginError("token_exchange_failed")]
    /\ UNCHANGED <<cookie, now, attempts, issued, env>>

CallbackExchanged(r) ==
    /\ At(r, "callback", "exchange")
    /\ issued < MaxIssued
    /\ issued' = issued + 1
    /\ \E idToken \in IdTokens, expiresIn \in ExpiresInValues :
          LET tokenResponse == AccessTokenResponse(issued', idToken, expiresIn)
              session == req[r].session
              outcome == CallbackOutcome(session, tokenResponse)
          IN  IF outcome = "store"
              THEN req' = [req EXCEPT ![r].pc = "done",
                                      ![r].resp = Some(tokenResponse),
                                      ![r].reads = Append(req[r].reads, now),
                                      ![r].session = CallbackStore(session, tokenResponse),
                                      ![r].isPending = FALSE,
                                      ![r].committed = TRUE,
                                      ![r].result = Redirect("/account")]
              ELSE req' = [req EXCEPT ![r].pc = "done",
                                      ![r].resp = Some(tokenResponse),
                                      ![r].result = LoginError(outcome)]
    /\ UNCHANGED <<cookie, now, attempts, env>>

(***************************************************************************)
(* getValidAccessToken and the guards that call it.                        *)
(***************************************************************************)
DiscoveryRequest == [to |-> "openid_configuration"]

RefreshRequest(refreshToken) ==
    [to |-> "token_endpoint", grant_type |-> "refresh_token",
     refresh_token |-> refreshToken]

RefreshResponse(n, expiresIn) ==
    [ok |-> TRUE, access_token |-> "a" \o ToString(n),
     refresh_token |-> "r" \o ToString(n), expires_in |-> expiresIn]

\* GuardResult with getAuthenticatedToken passing a missing token on
GuardResultNoAbort(op, accessToken) == Return(accessToken)

\* what the caller of getValidAccessToken makes of its result
GuardResult(op, accessToken) ==
    IF op = "getAuthenticatedToken" /\ (accessToken = None \/ accessToken = Some(""))
    THEN ThrowRedirect("/account/authorize")
    ELSE Return(accessToken)

\* ValidAccessTokenCase with a single-flight guard: while another request
\* is refreshing the same token set the stored token is served
ValidAccessTokenCaseSingleFlight(session) ==
    LET tokens == getCustomerTokens(session)
    IN  IF tokens = None THEN "null"
        ELSE IF ~isTokenExpired(tokens[1].expiresAt) THEN "cached"
        ELSE IF \E q \in Reqs : /\ req[q].pc \in {"discovery", "refresh"}
                                /\ req[q].session = session
        THEN "cached"
        ELSE "refresh"

\* ValidAccessTokenCase that refreshes whenever a token set is stored
ValidAccessTokenCaseEager(session) ==
    IF getCustomerTokens(session) = None THEN "null" ELSE "refresh"

\* the first, synchronous part of getValidAccessToken: "null" without a
\* complete token set, "cached" before expiry, "refresh" otherwise
ValidAccessTokenCase(session) ==
    LET tokens == getCustomerTokens(session)
    IN  IF tokens = None THEN "null"
        ELSE IF ~isTokenExpired(tokens[1].expiresAt) THEN "cached"
        ELSE "refresh"

getValidAccessToken(r) ==
    LET session == req[r].session
        case == ValidAccessTokenCase(session)
    IN  IF case = "null"
        THEN req' = [req EXCEPT ![r].pc = "done",
                                ![r].result = GuardResult(req[r].op, None)]
        ELSE IF case = "cached"
        THEN req' = [req EXCEPT ![r].pc = "done", ![r].reads = Append(req[r].reads, now),
                                ![r].result = GuardResult(req[r].op,
                                                  Some(session[KEY_ACCESS_TOKEN]))]
        ELSE req' = [req EXCEPT ![r].pc = "discovery", ![r].reads = Append(req[r].reads, now),
                                ![r].sent = Append(req[r].sent, DiscoveryRequest)]

\* getValidAccessToken called by a loader with shopDomain and clientId at hand
ValidAccessTokenLoader(r) ==
    /\ \/ At(r, "getValidAccessToken", "run")
       \/ At(r, "optionalAuth", "checked")
    /\ getValidAccessToken(r)
    /\ UNCHANGED <<cookie, now, attempts, issued, env>>

GetAuthenticatedToken(r) ==
    /\ At(r, "getAuthenticatedToken", "run")
    /\ IF ~env.shopDomain \/ ~env.clientId
       THEN Finish(r, req[r].session, FALSE,
                   ThrowError("PUBLIC_STORE_DOMAIN and CUSTOMER_ACCOUNT_CLIENT_ID must be set"))
       ELSE getValidAccessToken(r)
    /\ UNCHANGED <<cookie, now, attempts, issued, env>>

\* variant: optionalAuth calls getValidAccessToken without the
\* isCustomerAuthenticated check
OptionalAuthUnchecked(r) ==
    /\ At(r, "optionalAuth", "run")
    /\ IF ~env.shopDomain \/ ~env.clientId
       THEN Finish(r, req[r].session, FALSE, Return(None))
       ELSE req' = [req EXCEPT ![r].pc = "checked",
                               ![r].reads = ClockReads(req[r].session)]
    /\ UNCHANGED <<cookie, now, attempts, issued, env>>

\* optionalAuth up to its call of getValidAccessToken; the call reads the
\* clock again
OptionalAuth(r) ==
    /\ At(r, "optionalAuth", "run")
    /\ IF ~env.shopDomain \/ ~env.clientId
       THEN Finish(r, req[r].session, FALSE, Return(None))
       ELSE IF ~isCustomerAuthenticated(req[r].session)
       THEN req' = [req EXCEPT ![r].pc = "done",
                               ![r].reads = ClockReads(req[r].session),
                               ![r].result = Return(None)]
       ELSE req' = [req EXCEPT ![r].pc = "checked",
                               ![r].reads = ClockReads(req[r].session)]
    /\ UNCHANGED <<cookie, now, attempts, issued, env>>

\* variant: a failed discovery returns null and leaves the session alone
RefreshDiscoveryFailedKeeps(r) ==
    /\ req[r].pc = "discovery"
    /\ Finish(r, req[r].session, FALSE, GuardResult(req[r].op, None))
    /\ UNCHANGED <<cookie, now, attempts, issued, env>>

\* discoverAuthEndpoints failed: the catch block clears the session
RefreshDiscoveryFailed(r) ==
    /\ req[r].pc = "discovery"
    /\ Finish(r, clearCustomerSession(req[r].session), TRUE,
              GuardResult(req[r].op, None))
    /\ UNCHANGED <<cookie, now, attempts, issued, env>>

RefreshDiscovered(r) ==
    /\ req[r].pc = "discovery"
    /\ Await(r, req[r].session, FALSE,
             RefreshRequest(req[r].session[KEY_REFRESH_TOKEN]), "refresh")
    /\ UNCHANGED <<cookie, now, attempts, issued, env>>

\* refreshAccessToken threw (non-success status): the catch block
RefreshRejected(r) ==
    /\ req[r].pc = "refresh"
    /\ req' = [req EXCEPT ![r].pc = "done", ![r].resp = Some(Rejected),
                          ![r].session = clearCustomerSession(req[r].session),
                          ![r].isPending = TRUE,
                          ![r].result = GuardResult(req[r].op, None)]
    /\ UNCHANGED <<cookie, now, attempts, issued, env>>

\* update that also writes the identity token field, which a refresh
\* response does not carry
RefreshStoreDropsIdToken(session, newTokens) ==
    SessionUnset(SessionSet(SessionSet(SessionSet(session,
        KEY_ACCESS_TOKEN, newTokens.access_token),
        KEY_REFRESH_TOKEN, newTokens.refresh_token),
        KEY_EXPIRES_AT, now + newTokens.expires_in * 1000),
        KEY_ID_TOKEN)

\* RefreshStore that keeps the refresh token it already had
RefreshStoreOldRefreshToken(session, newTokens) ==
    SessionSet(SessionSet(session,
        KEY_ACCESS_TOKEN, newTokens.access_token),
        KEY_EXPIRES_AT, now + newTokens.expires_in * 1000)

\* "Update session with new tokens"
RefreshStore(session, newTokens) ==
    SessionSet(SessionSet(SessionSet(session,
        KEY_ACCESS_TOKEN, newTokens.access_token),
        KEY_REFRESH_TOKEN, newTokens.refresh_token),
        KEY_EXPIRES_AT, now + newTokens.expires_in * 1000)

Refreshed(r) ==
    /\ req[r].pc = "refresh"
    /\ issued < MaxIssued
    /\ issued' = issued + 1
    /\ \E expiresIn \in ExpiresInValues :
          LET newTokens == RefreshResponse(issued', expiresIn)
          IN  req' = [req EXCEPT ![r].pc = "done", ![r].resp = Some(newTokens),
                                 ![r].reads = Append(req[r].reads, now),
                                 ![r].session = RefreshStore(req[r].session, newTokens),
                                 ![r].isPending = TRUE,
                                 ![r].result = GuardResult(req[r].op,
                                                   Some(newTokens.access_token))]
    /\ UNCHANGED <<cookie, now, attempts, env>>

(***************************************************************************)
(* The synchronous guards and the login page.                              *)
(***************************************************************************)
\* variant: the guard starts a refresh when the token set is Expired
RequireCustomerAuthRefreshes(r) ==
    /\ At(r, "requireCustomerAuth", "run")
    /\ IF isCustomerAuthenticated(req[r].session)
       THEN req' = [req EXCEPT ![r].pc = "done",
                               ![r].reads = ClockReads(req[r].session),
                               ![r].result = Return(None)]
       ELSE IF getCustomerTokens(req[r].session) = None
       THEN req' = [req EXCEPT ![r].pc = "done",
                               ![r].result = ThrowRedirect("/account/authorize")]
       ELSE req' = [req EXCEPT ![r].pc = "discovery",
                               ![r].reads = ClockReads(req[r].session),
                               ![r].sent = Append(req[r].sent, DiscoveryRequest)]
    /\ UNCHANGED <<cookie, now, attempts, issued, env>>

RequireCustomerAuth(r) ==
    /\ At(r, "requireCustomerAuth", "run")
    /\ req' = [req EXCEPT ![r].pc = "done",
                          ![r].reads = ClockReads(req[r].session),
                          ![r].result =
              IF ~isCustomerAuthenticated(req[r].session)
              THEN ThrowRedirect("/account/authorize") ELSE Return(None)]
    /\ UNCHANGED <<cookie, now, attempts, issued, env>>

RedirectIfAuthenticated(r) ==
    /\ At(r, "redirectIfAuthenticated", "run")
    /\ req' = [req EXCEPT ![r].pc = "done",
                          ![r].reads = ClockReads(req[r].session),
                          ![r].result =
              IF isCustomerAuthenticated(req[r].session)
              THEN ThrowRedirect("/account") ELSE Return(None)]
    /\ UNCHANGED <<cookie, now, attempts, issued, env>>

LoginLoader(r) ==
    /\ At(r, "login", "run")
    /\ req' = [req EXCEPT ![r].pc = "done",
                          ![r].reads = ClockReads(req[r].session),
                          ![r].result =
              IF isCustomerAuthenticated(req[r].session)
              THEN Redirect("/account") ELSE Return(None)]
    /\ UNCHANGED <<cookie, now, attempts, issued, env>>

(***************************************************************************)
(* /account/logout.                                                        *)
(***************************************************************************)
\* variant: the logout clears as clearCustomerSession does
LogoutClearAll(session) == clearCustomerSession(session)

\* clearing that forgets the identity token
LogoutClearKeepsIdToken(session) ==
    SessionUnset(SessionUnset(SessionUnset(session,
        KEY_ACCESS_TOKEN), KEY_REFRESH_TOKEN), KEY_EXPIRES_AT)

LogoutClear(session) ==
    SessionUnset(SessionUnset(SessionUnset(SessionUnset(session,
        KEY_ACCESS_TOKEN), KEY_REFRESH_TOKEN), KEY_ID_TOKEN), KEY_EXPIRES_AT)

LogoutUrl(idToken) ==
    [kind |-> "redirect", to |-> "end_session_endpoint", id_token_hint |-> idToken,
     post_logout_redirect_uri |-> "/"]

LogoutLoader(r) ==
    /\ At(r, "logout", "run")
    /\ LET session == req[r].session
       IN  IF ~env.shopDomain
           THEN Finish(r, session, FALSE,
                       ThrowError("PUBLIC_STORE_DOMAIN environment variable is not set"))
           ELSE IF Truthy(session, KEY_ID_TOKEN)
           THEN Await(r, LogoutClear(session), TRUE, DiscoveryRequest, "end_session")
           ELSE FinishCommitted(r, LogoutClear(session), Redirect("/"))
    /\ UNCHANGED <<cookie, now, attempts, issued, env>>

\* the answer of the openid-configuration endpoint
Discovered == [ok |-> TRUE, end_session_endpoint |-> "end_session_endpoint"]

LogoutDiscovered(r) ==
    /\ At(r, "logout", "end_session")
    /\ req' = [req EXCEPT ![r].pc = "done",
                          ![r].resp = Some(Discovered),
                          ![r].isPending = FALSE,
                          ![r].committed = TRUE,
                          ![r].result = LogoutUrl(req[r].loaded[KEY_ID_TOKEN])]
    /\ UNCHANGED <<cookie, now, attempts, issued, env>>

\* discoverAuthEndpoints or buildLogoutUrl threw: the catch block
LogoutDiscoveryFailed(r) ==
    /\ At(r, "logout", "end_session")
    /\ req' = [req EXCEPT ![r].pc = "done",
                          ![r].resp = Some(Rejected),
                          ![r].isPending = FALSE,
                          ![r].committed = TRUE,
                          ![r].result = Redirect("/")]
    /\ UNCHANGED <<cookie, now, attempts, issued, env>>

(***************************************************************************)
(* The system.                                                             *)
(***************************************************************************)
Envs == [shopDomain : BOOLEAN, clientId : BOOLEAN, shopId : BOOLEAN]

Init ==
    /\ cookie = EmptySession
    /\ now = ClockStart
    /\ attempts = 0
    /\ issued = 0
    /\ env \in Envs
    /\ req = [r \in Reqs |-> Idle]

\* the storefront is deployed again with other environment variables
Redeploy ==
    /\ \A q \in Reqs : req[q].pc = "idle"
    /\ env' \in Envs \ {env}
    /\ UNCHANGED <<cookie, now, attempts, issued, req>>

Handler(r) ==
    \/ AuthorizeLoader(r)
    \/ CallbackLoader(r)
    \/ CallbackExchangeFailed(r)
    \/ CallbackExchanged(r)
    \/ ValidAccessTokenLoader(r)
    \/ GetAuthenticatedToken(r)
    \/ OptionalAuth(r)
    \/ RefreshDiscoveryFailed(r)
    \/ RefreshDiscovered(r)
    \/ RefreshRejected(r)
    \/ Refreshed(r)
    \/ RequireCustomerAuth(r)
    \/ RedirectIfAuthenticated(r)
    \/ LoginLoader(r)
    \/ LogoutLoader(r)
    \/ LogoutDiscovered(r)
    \/ LogoutDiscoveryFailed(r)

(***************************************************************************)
(* The token session store on its own: the guards applied to any stored   *)
(* session, complete or not.                                               *)
(***************************************************************************)
StoredExpiresAt == {ClockStart, ClockStart + 2 * TickMs}

StoredTokenSets ==
    {[k \in K |-> IF k = KEY_ACCESS_TOKEN THEN "a0"
                  ELSE IF k = KEY_REFRESH_TOKEN THEN "r0"
                  ELSE IF k = KEY_ID_TOKEN THEN Jwt(None)
                  ELSE e] : K \in SUBSET TokenKeys, e \in StoredExpiresAt}

AttemptInFlight ==
    [k \in FlowKeys |-> IF k = KEY_CODE_VERIFIER THEN generateCodeVerifier(1)
                        ELSE IF k = KEY_STATE THEN generateState(1)
                        ELSE generateNonce(1)]

StoredSessions ==
    StoredTokenSets
    \cup {[k \in (DOMAIN t) \cup FlowKeys |->
              IF k \in FlowKeys THEN AttemptInFlight[k] ELSE t[k]] :
          t \in StoredTokenSets}

InitStore ==
    /\ cookie \in StoredSessions
    /\ now = ClockStart
    /\ attempts = 0
    /\ issued = 0
    /\ env \in Envs
    /\ req = [r \in Reqs |-> Idle]

GuardOps == {"login", "getValidAccessToken", "getAuthenticatedToken",
             "optionalAuth", "requireCustomerAuth", "redirectIfAuthenticated"}

GuardStart(r) ==
    /\ \A q \in Reqs : req[q].pc = "idle"
    /\ \E op \in GuardOps : Start(r, op, NoParams)

GuardHandler(r) ==
    \/ ValidAccessTokenLoader(r)
    \/ GetAuthenticatedToken(r)
    \/ OptionalAuth(r)
    \/ RefreshDiscoveryFailed(r)
    \/ RefreshDiscovered(r)
    \/ RefreshRejected(r)
    \/ Refreshed(r)
    \/ RequireCustomerAuth(r)
    \/ RedirectIfAuthenticated(r)
    \/ LoginLoader(r)

NextStore ==
    \/ Tick
    \/ \E r \in Reqs : GuardStart(r)
    \/ \E r \in Reqs : GuardHandler(r)
    \/ \E r \in Reqs : Respond(r)

SpecStore == InitStore /\ [][NextStore]_vars

(***************************************************************************)
(* One guard call after another on the same browser session: the slot of   *)
(* the call that was answered last keeps its record (pc = "responded")     *)
(* while the next call runs in the other slot.                             *)
(***************************************************************************)
PairStart(r) ==
    /\ req[r].pc = "idle"
    /\ \A q \in Reqs \ {r} : req[q].pc \in {"idle", "responded"}
    /\ \E op \in GuardOps : Start(r, op, NoParams)

PairRespond(r) ==
    /\ req[r].pc = "done"
    /\ cookie' = IF req[r].isPending \/ req[r].committed
                 THEN req[r].session ELSE cookie
    /\ req' = [q \in Reqs |-> IF q = r THEN [req[r] EXCEPT !.pc = "responded"]
                              ELSE Idle]
    /\ UNCHANGED <<now, attempts, issued, env>>

NextPair ==
    \/ Tick
    \/ \E r \in Reqs : PairStart(r)
    \/ \E r \in Reqs : GuardHandler(r)
    \/ \E r \in Reqs : PairRespond(r)

SpecPair == InitStore /\ [][NextPair]_vars

(***************************************************************************)
(* A login followed by page loads: authorize, callback and the token       *)
(* guards called one after another on the same browser session, the call   *)
(* answered last kept in its slot (pc = "responded").                      *)
(***************************************************************************)
LoginStart(r) ==
    /\ \A q \in Reqs \ {r} : req[q].pc \in {"idle", "responded"}
    /\ \/ \E p \in CallbackParams : Start(r, "callback", p)
       \/ \E op \in {"authorize", "getValidAccessToken"} : Start(r, op, NoParams)

LoginHandler(r) ==
    \/ AuthorizeLoader(r)
    \/ CallbackLoader(r)
    \/ CallbackExchangeFailed(r)
    \/ CallbackExchanged(r)
    \/ ValidAccessTokenLoader(r)
    \/ RefreshDiscoveryFailed(r)
    \/ RefreshDiscovered(r)
    \/ RefreshRejected(r)
    \/ Refreshed(r)

\* as Respond; the record of a callback that stored tokens stays in its slot
\* until the next call is answered
LoginRespond(r) ==
    /\ req[r].pc = "done"
    /\ cookie' = IF req[r].isPending \/ req[r].committed
                 THEN req[r].session ELSE cookie
    /\ req' = [q \in Reqs |->
                  IF q = r /\ req[r].op = "callback" /\ req[r].result = Redirect("/account")
                  THEN [req[r] EXCEPT !.pc = "responded"]
                  ELSE Idle]
    /\ UNCHANGED <<now, attempts, issued, env>>

\* the storefront is deployed with every environment variable set
InitLogin ==
    /\ Init
    /\ env = [shopDomain |-> TRUE, clientId |-> TRUE, shopId |-> TRUE]

NextLogin ==
    \/ Tick
    \/ \E r \in Reqs : LoginStart(r)
    \/ \E r \in Reqs : LoginHandler(r)
    \/ \E r \in Reqs : LoginRespond(r)

SpecLogin == InitLogin /\ [][NextLogin]_vars

(***************************************************************************)
(* Requests of one browser session handled concurrently: a request starts  *)
(* whatever the other slot is doing, each on its own copy of the session.  *)
(***************************************************************************)
ConcurrentStart(r) ==
    \E op \in {"getValidAccessToken", "getAuthenticatedToken"} : Start(r, op, NoParams)

ConcurrentHandler(r) ==
    \/ ValidAccessTokenLoader(r)
    \/ GetAuthenticatedToken(r)
    \/ RefreshDiscoveryFailed(r)
    \/ RefreshDiscovered(r)
    \/ RefreshRejected(r)
    \/ Refreshed(r)

InitConcurrent ==
    /\ InitStore
    /\ env = [shopDomain |-> TRUE, clientId |-> TRUE, shopId |-> TRUE]

NextConcurrent ==
    \/ Tick
    \/ \E r \in Reqs : ConcurrentStart(r)
    \/ \E r \in Reqs : ConcurrentHandler(r)
    \/ \E r \in Reqs : Respond(r)

SpecConcurrent == InitConcurrent /\ [][NextConcurrent]_vars

(***************************************************************************)
(* buildAuthorizationUrl on its own. The URL is the authorization endpoint *)
(* with its query parameters, a sequence of <<name, value>> pairs in the   *)
(* order of the append calls.                                              *)
(***************************************************************************)
GoodEndpoint == "https://shopify.com/authentication/1/oauth/authorize"

BadEndpoint == "not a url"

AuthorizationRequestParams ==
    [authorizationEndpoint : {GoodEndpoint, BadEndpoint},
     clientId : {"client-1"},
     redirectUri : {"https://shop.example/account/authorize/callback"},
     state : StateValues,
     codeChallenge : {generateCodeChallenge(generateCodeVerifier(n)) : n \in 1..2},
     nonce : {None, Some(""), Some(generateNonce(1))},
     locale : {None, Some(""), Some("en")},
     prompt : {None, Some("none")}]

\* `if (value) url.searchParams.append(name, value)`
AppendIfTruthy(query, name, value) ==
    IF Falsy(value) THEN query ELSE Append(query, <<name, value[1]>>)

\* buildAuthorizationUrl that appends the nonce parameter unconditionally
buildAuthorizationUrlAlwaysNonce(params) ==
    IF params.authorizationEndpoint = BadEndpoint
    THEN ThrowError("Invalid URL")
    ELSE LET q1 == << <<"scope", "openid email customer-account-api:full">>,
                      <<"client_id", params.clientId>>,
                      <<"response_type", "code">>,
                      <<"redirect_uri", params.redirectUri>>,
                      <<"state", params.state>>,
                      <<"code_challenge", params.codeChallenge>>,
                      <<"code_challenge_method", "S256">> >>
             q2 == Append(q1, <<"nonce", IF params.nonce = None THEN "undefined"
                                         ELSE params.nonce[1]>>)
             q3 == AppendIfTruthy(q2, "locale", params.locale)
             q4 == AppendIfTruthy(q3, "prompt", params.prompt)
         IN  Return([endpoint |-> params.authorizationEndpoint, query |-> q4])

buildAuthorizationUrl(params) ==
    IF params.authorizationEndpoint = BadEndpoint
    THEN ThrowError("Invalid URL")
    ELSE LET q1 == << <<"scope", "openid email customer-account-api:full">>,
                      <<"client_id", params.clientId>>,
                      <<"response_type", "code">>,
                      <<"redirect_uri", params.redirectUri>>,
                      <<"state", params.state>>,
                      <<"code_challenge", params.codeChallenge>>,
                      <<"code_challenge_method", "S256">> >>
             q2 == AppendIfTruthy(q1, "nonce", params.nonce)
             q3 == AppendIfTruthy(q2, "locale", params.locale)
             q4 == AppendIfTruthy(q3, "prompt", params.prompt)
         IN  Return([endpoint |-> params.authorizationEndpoint, query |-> q4])

UrlStart(r) ==
    \E params \in AuthorizationRequestParams : Start(r, "buildAuthorizationUrl", params)

BuildAuthorizationUrl(r) ==
    /\ At(r, "buildAuthorizationUrl", "run")
    /\ Finish(r, req[r].session, FALSE, buildAuthorizationUrl(req[r].params))
    /\ UNCHANGED <<cookie, now, attempts, issued, env>>

NextUrl ==
    \/ \E r \in Reqs : UrlStart(r)
    \/ \E r \in Reqs : BuildAuthorizationUrl(r)
    \/ \E r \in Reqs : Respond(r)

SpecUrl == InitLogin /\ [][NextUrl]_vars

(***************************************************************************)
(* decodeJwt on its own, applied to any token: token.split('.') gives at   *)
(* least one segment.                                                      *)
(***************************************************************************)
MaxSegments == 4

Segments == {"", HeaderSegment, EncodePayload(Some(generateNonce(1))), BadSegment}

JwtInputs == UNION {[1..n -> Segments] : n \in 1..MaxSegments}

decodeJwt(token) ==
    IF Len(token) < 3 \/ token[1] = "" \/ token[2] = "" \/ token[3] = ""
    THEN ThrowError("Invalid JWT token format")
    ELSE IF ~Decodable(token[1]) \/ ~Decodable(token[2])
    THEN ThrowError("SyntaxError")
    ELSE Return([header |-> token[1],
                 payload |-> [nonce |-> SegmentNonce(token[2])],
                 signature |-> token[3]])

JwtStart(r) ==
    /\ \A q \in Reqs : req[q].pc = "idle"
    /\ \E token \in JwtInputs : Start(r, "decodeJwt", token)

DecodeJwt(r) ==
    /\ At(r, "decodeJwt", "run")
    /\ Finish(r, req[r].session, FALSE, decodeJwt(req[r].params))
    /\ UNCHANGED <<cookie, now, attempts, issued, env>>

NextJwt ==
    \/ \E r \in Reqs : JwtStart(r)
    \/ \E r \in Reqs : DecodeJwt(r)
    \/ \E r \in Reqs : Respond(r)

SpecJwt == InitLogin /\ [][NextJwt]_vars

(***************************************************************************)
(* Callback handling on its own, on a session with or without an           *)
(* authorization attempt stored, under any deployment. The loader runs     *)
(* once started and the token endpoint answers every request (weak         *)
(* fairness).                                                              *)
(***************************************************************************)
InitCallback ==
    /\ cookie \in {EmptySession, AttemptInFlight}
    /\ now = ClockStart
    /\ attempts = (IF cookie = EmptySession THEN 0 ELSE 1)
    /\ issued = 0
    /\ env \in Envs
    /\ req = [r \in Reqs |-> Idle]

CallbackStart(r) ==
    /\ \A q \in Reqs : req[q].pc = "idle"
    /\ \E p \in CallbackParams : Start(r, "callback", p)

TokenEndpointAnswers(r) ==
    \/ CallbackExchangeFailed(r)
    \/ CallbackExchanged(r)

NextCallback ==
    \/ Tick
    \/ \E r \in Reqs : CallbackStart(r)
    \/ \E r \in Reqs : CallbackLoader(r)
    \/ \E r \in Reqs : TokenEndpointAnswers(r)
    \/ \E r \in Reqs : Respond(r)

SpecCallback ==
    /\ InitCallback
    /\ [][NextCallback]_vars
    /\ WF_vars(\E r \in Reqs : CallbackLoader(r))
    /\ WF_vars(\E r \in Reqs : TokenEndpointAnswers(r))

(***************************************************************************)
(* A login and the calls after it, the record of the callback that stored  *)
(* the tokens kept in its slot until the next authorize call is answered.  *)
(***************************************************************************)
ReplayRespond(r) ==
    /\ req[r].pc = "done"
    /\ cookie' = IF req[r].isPending \/ req[r].committed
                 THEN req[r].session ELSE cookie
    /\ req' = [q \in Reqs |->
                  IF q = r
                  THEN IF req[r].op = "callback" /\ req[r].result = Redirect("/account")
                       THEN [req[r] EXCEPT !.pc = "responded"]
                       ELSE Idle
                  ELSE IF req[r].op = "authorize" /\ req[r].committed
                       THEN Idle
                       ELSE req[q]]
    /\ UNCHANGED <<now, attempts, issued, env>>

NextReplay ==
    \/ Tick
    \/ \E r \in Reqs : LoginStart(r)
    \/ \E r \in Reqs : LoginHandler(r)
    \/ \E r \in Reqs : ReplayRespond(r)

SpecReplay == InitLogin /\ [][NextReplay]_vars

(***************************************************************************)
(* Logins and logouts, one request at a time; the record of a logout stays *)
(* in its slot for as long as the cookie is the one it committed.          *)
(***************************************************************************)
LogoutStart(r) ==
    /\ \A q \in Reqs \ {r} : req[q].pc \in {"idle", "responded"}
    /\ \/ \E p \in CallbackParams : Start(r, "callback", p)
       \/ \E op \in {"authorize", "logout"} : Start(r, op, NoParams)

LogoutHandler(r) ==
    \/ AuthorizeLoader(r)
    \/ CallbackLoader(r)
    \/ CallbackExchangeFailed(r)
    \/ CallbackExchanged(r)
    \/ LogoutLoader(r)
    \/ LogoutDiscovered(r)
    \/ LogoutDiscoveryFailed(r)

LogoutRespond(r) ==
    /\ req[r].pc = "done"
    /\ cookie' = IF req[r].isPending \/ req[r].committed
                 THEN req[r].session ELSE cookie
    /\ req' = [q \in Reqs |->
                  IF q = r
                  THEN IF req[r].op = "logout" /\ req[r].committed
                       THEN [req[r] EXCEPT !.pc = "responded"]
                       ELSE Idle
                  ELSE IF req[r].isPending \/ req[r].committed
                       THEN Idle
                       ELSE req[q]]
    /\ UNCHANGED <<now, attempts, issued, env>>

NextLogout ==
    \/ Tick
    \/ \E r \in Reqs : LogoutStart(r)
    \/ \E r \in Reqs : LogoutHandler(r)
    \/ \E r \in Reqs : LogoutRespond(r)

SpecLogout == InitLogin /\ [][NextLogout]_vars

Next ==
    \/ Tick
    \/ Redeploy
    \/ \E r \in Reqs : SequentialStart(r)
    \/ \E r \in Reqs : Handler(r)
    \/ \E r \in Reqs : Respond(r)

Spec == Init /\ [][Next]_vars

(***************************************************************************)
(* Properties.                                                             *)
(***************************************************************************)
Done(r, op) == req[r].op = op /\ req[r].pc = "done"

\* the request left the session as it found it and asked for no Set-Cookie
SessionUntouched(r) ==
    /\ req[r].session = req[r].loaded
    /\ ~req[r].isPending
    /\ ~req[r].committed

\* the state parameter differs from the state stored when the request came
\* in, or no state was stored
StateDiffers(r) ==
    \/ ~SessionHas(req[r].loaded, KEY_STATE)
    \/ req[r].params.state # Some(req[r].loaded[KEY_STATE])

EndsWithoutExchange(r, code) ==
    /\ req[r].result = LoginError(code)
    /\ req[r].sent = <<>>
    /\ SessionUntouched(r)

\* C1 as stated: every callback request that carries a code and a state
\* parameter differing from the stored state (or with no state stored) ends
\* with error=invalid_state, sends nothing to the token endpoint and writes
\* no session key.
C1_AsStated ==
    \A r \in Reqs :
        (/\ Done(r, "callback")
         /\ req[r].params.code # None
         /\ req[r].params.state # None
         /\ StateDiffers(r))
        => EndsWithoutExchange(r, "invalid_state")

\* C1 amended: a callback request with a non-empty code, a non-empty state
\* differing from the stored state (or with no state stored) and no
\* non-empty error parameter ends with error=invalid_state, sends nothing to
\* the token endpoint and writes no session key.
C1_StateMismatch ==
    \A r \in Reqs :
        (/\ Done(r, "callback")
         /\ Falsy(req[r].params.error)
         /\ ~Falsy(req[r].params.code)
         /\ ~Falsy(req[r].params.state)
         /\ StateDiffers(r))
        => EndsWithoutExchange(r, "invalid_state")

\* a callback carrying the state of another attempt than the stored one, in
\* a session that could otherwise exchange the code
C1_Witness ==
    \E r \in Reqs :
        /\ Done(r, "callback")
        /\ Falsy(req[r].params.error)
        /\ ~Falsy(req[r].params.code)
        /\ ~Falsy(req[r].params.state)
        /\ SessionHas(req[r].loaded, KEY_STATE)
        /\ SessionHas(req[r].loaded, KEY_CODE_VERIFIER)
        /\ req[r].params.state # Some(req[r].loaded[KEY_STATE])
        /\ req[r].result = LoginError("invalid_state")

\* the access / refresh / identity / expiry keys of a session
TokenPart(session) == [k \in (DOMAIN session) \cap TokenKeys |-> session[k]]

\* the code exchange of the request succeeded and the identity token decoded
ExchangeSucceeded(r) ==
    /\ req[r].resp # None
    /\ req[r].resp[1].ok
    /\ ~decodeJwtThrows(req[r].resp[1].id_token)

StoredNonce(session) ==
    IF SessionHas(session, KEY_NONCE) THEN Some(session[KEY_NONCE]) ELSE None

\* C2: when the code exchange succeeds but the nonce decoded from the
\* identity token differs from the stored nonce, the callback ends with
\* error=invalid_nonce and keeps every token key as it was (nothing of the
\* exchange is persisted, nothing is committed).
C2_NonceMismatch ==
    \A r \in Reqs :
        (/\ Done(r, "callback")
         /\ ExchangeSucceeded(r)
         /\ getNonce(req[r].resp[1].id_token) # StoredNonce(req[r].loaded))
        => /\ req[r].result = LoginError("invalid_nonce")
           /\ SessionUntouched(r)
           /\ TokenPart(req[r].session) = TokenPart(req[r].loaded)

\* the identity token carries the nonce of another attempt
C2_Witness ==
    \E r \in Reqs :
        /\ Done(r, "callback")
        /\ ExchangeSucceeded(r)
        /\ SessionHas(req[r].loaded, KEY_NONCE)
        /\ getNonce(req[r].resp[1].id_token) # None
        /\ getNonce(req[r].resp[1].id_token) # Some(req[r].loaded[KEY_NONCE])
        /\ req[r].result = LoginError("invalid_nonce")

\* C3: a callback request without the code or without the state parameter,
\* and without an error parameter, ends with error=invalid_callback, changes
\* no session key and sends nothing to the token endpoint.
C3_MissingParameter ==
    \A r \in Reqs :
        (/\ Done(r, "callback")
         /\ req[r].params.error = None
         /\ (req[r].params.code = None \/ req[r].params.state = None))
        => EndsWithoutExchange(r, "invalid_callback")

\* the scenario of the specification: a code but no state, while an
\* authorization attempt is in flight
C3_Witness ==
    \E r \in Reqs :
        /\ Done(r, "callback")
        /\ req[r].params.error = None
        /\ req[r].params.code = Some("c1")
        /\ req[r].params.state = None
        /\ SessionHas(req[r].loaded, KEY_STATE)
        /\ req[r].result = LoginError("invalid_callback")

\* all four token keys are stored
Complete(session) == TokenKeys \subseteq DOMAIN session

\* the token set the request found was complete, and unexpired (expired) at
\* the first clock value the request read
AuthenticatedAtEntry(r) ==
    /\ Complete(req[r].loaded)
    /\ req[r].reads # <<>>
    /\ req[r].reads[1] < req[r].loaded[KEY_EXPIRES_AT]

ExpiredAtEntry(r) ==
    /\ Complete(req[r].loaded)
    /\ req[r].reads # <<>>
    /\ req[r].reads[1] >= req[r].loaded[KEY_EXPIRES_AT]

RefreshSucceeded(r) == req[r].resp # None /\ req[r].resp[1].ok

\* the last clock value the request read
LastRead(r) == req[r].reads[Len(req[r].reads)]

\* C4: getValidAccessToken on an Authenticated session (complete token set,
\* clock strictly before expiresAt) returns the stored access token, sends
\* no request and changes no session key.
C4_CachedToken ==
    \A r \in Reqs :
        (Done(r, "getValidAccessToken") /\ AuthenticatedAtEntry(r))
        => /\ req[r].result = Return(Some(req[r].loaded[KEY_ACCESS_TOKEN]))
           /\ req[r].sent = <<>>
           /\ SessionUntouched(r)

\* a token obtained by a callback is served from the session one tick before
\* it expires
C4_Witness ==
    \E r \in Reqs :
        /\ Done(r, "getValidAccessToken")
        /\ AuthenticatedAtEntry(r)
        /\ req[r].reads[1] + TickMs = req[r].loaded[KEY_EXPIRES_AT]
        /\ req[r].result = Return(Some("a1"))

\* C5: getValidAccessToken on an Expired session whose refresh succeeds
\* overwrites access token, refresh token and expiresAt (the clock at storage
\* plus expires_in * 1000) with the refreshed values, returns the new access
\* token and, for expires_in > 0, leaves the session Authenticated.
C5_RefreshSuccess ==
    \A r \in Reqs :
        (Done(r, "getValidAccessToken") /\ ExpiredAtEntry(r) /\ RefreshSucceeded(r))
        => LET newTokens == req[r].resp[1]
               session == req[r].session
           IN  /\ Complete(session)
               /\ session[KEY_ACCESS_TOKEN] = newTokens.access_token
               /\ session[KEY_REFRESH_TOKEN] = newTokens.refresh_token
               /\ session[KEY_EXPIRES_AT] = LastRead(r) + newTokens.expires_in * 1000
               /\ session[KEY_ACCESS_TOKEN] # req[r].loaded[KEY_ACCESS_TOKEN]
               /\ session[KEY_REFRESH_TOKEN] # req[r].loaded[KEY_REFRESH_TOKEN]
               /\ req[r].result = Return(Some(newTokens.access_token))
               /\ req[r].isPending
               /\ newTokens.expires_in > 0 => LastRead(r) < session[KEY_EXPIRES_AT]

C5_Witness ==
    \E r \in Reqs :
        /\ Done(r, "getValidAccessToken")
        /\ ExpiredAtEntry(r)
        /\ RefreshSucceeded(r)
        /\ req[r].resp[1].expires_in > 0
        /\ req[r].reads[1] = req[r].loaded[KEY_EXPIRES_AT]
        /\ req[r].result = Return(Some("a2"))

RefreshRequestRejected(r) ==
    /\ Len(req[r].sent) = 2
    /\ req[r].sent[2].to = "token_endpoint"
    /\ req[r].resp = Some(Rejected)

\* C6: getValidAccessToken on an Expired session whose refresh request is
\* rejected returns null, and afterwards all seven session keys are absent
\* (the session is Unauthenticated).
C6_RefreshRejected ==
    \A r \in Reqs :
        (Done(r, "getValidAccessToken") /\ ExpiredAtEntry(r) /\ RefreshRequestRejected(r))
        => /\ req[r].result = Return(None)
           /\ \A k \in SESSION_KEYS : ~SessionHas(req[r].session, k)
           /\ Unauthenticated(req[r].session)
           /\ req[r].isPending

\* the refresh is rejected while an authorization attempt is in flight
C6_Witness ==
    \E r \in Reqs :
        /\ Done(r, "getValidAccessToken")
        /\ ExpiredAtEntry(r)
        /\ RefreshRequestRejected(r)
        /\ FlowKeys \subseteq DOMAIN req[r].loaded
        /\ req[r].result = Return(None)

\* what the request's isCustomerAuthenticated call returned, seen through
\* the guard that made it
SawAuthenticated(r) ==
    \/ req[r].op = "login" /\ req[r].result = Redirect("/account")
    \/ req[r].op = "requireCustomerAuth" /\ req[r].result = Return(None)
    \/ req[r].op = "redirectIfAuthenticated" /\ req[r].result = ThrowRedirect("/account")

SawUnauthenticated(r) ==
    \/ req[r].op = "login" /\ req[r].result = Return(None)
    \/ req[r].op = "requireCustomerAuth"
       /\ req[r].result = ThrowRedirect("/account/authorize")
    \/ req[r].op = "redirectIfAuthenticated" /\ req[r].result = Return(None)

SyncGuards == {"login", "requireCustomerAuth", "redirectIfAuthenticated"}

\* C7: with a token set that is absent or incomplete (one of the four keys
\* missing) isCustomerAuthenticated is false and getValidAccessToken returns
\* null at once: no request sent, no clock read, no exception, no session
\* change.
C7_IncompleteTokenSet ==
    \A r \in Reqs :
        (req[r].pc = "done" /\ ~Complete(req[r].loaded))
        => /\ req[r].op \in SyncGuards => SawUnauthenticated(r)
           /\ req[r].op = "getValidAccessToken"
              => /\ req[r].result = Return(None)
                 /\ req[r].sent = <<>>
                 /\ req[r].reads = <<>>
                 /\ SessionUntouched(r)

\* an incomplete set: access token and expiry stored, refresh token missing
C7_Witness ==
    \E r \in Reqs :
        /\ Done(r, "getValidAccessToken")
        /\ SessionHas(req[r].loaded, KEY_ACCESS_TOKEN)
        /\ SessionHas(req[r].loaded, KEY_EXPIRES_AT)
        /\ SessionHas(req[r].loaded, KEY_ID_TOKEN)
        /\ ~SessionHas(req[r].loaded, KEY_REFRESH_TOKEN)
        /\ now < req[r].loaded[KEY_EXPIRES_AT]
        /\ req[r].result = Return(None)

\* C8: for a complete stored token set isCustomerAuthenticated is true iff
\* the clock it reads is strictly less than expiresAt; at clock = expiresAt
\* the set is expired.
C8_ExpiryBoundary ==
    \A r \in Reqs :
        (/\ req[r].pc = "done"
         /\ req[r].op \in SyncGuards
         /\ Complete(req[r].loaded))
        => /\ Len(req[r].reads) = 1
           /\ SawAuthenticated(r) <=> req[r].reads[1] < req[r].loaded[KEY_EXPIRES_AT]
           /\ SawUnauthenticated(r) <=> req[r].reads[1] >= req[r].loaded[KEY_EXPIRES_AT]

\* the clock equals expiresAt exactly
C8_Witness ==
    \E r \in Reqs :
        /\ Done(r, "login")
        /\ Complete(req[r].loaded)
        /\ req[r].reads = <<req[r].loaded[KEY_EXPIRES_AT]>>
        /\ SawUnauthenticated(r)

ConfigPresent == env.shopDomain /\ env.clientId

\* C9: optionalAuth called on an Expired token set with configuration
\* present makes the refresh attempt of the require guard: it returns null
\* only when the refresh failed, and the new access token when it succeeded.
C9_OptionalAuthRefreshes ==
    \A r \in Reqs :
        (Done(r, "optionalAuth") /\ ConfigPresent /\ ExpiredAtEntry(r))
        => /\ req[r].sent # <<>>
           /\ req[r].result = Return(None) => ~RefreshSucceeded(r)
           /\ RefreshSucceeded(r)
              => req[r].result = Return(Some(req[r].resp[1].access_token))

RedirectGuards == {"login", "redirectIfAuthenticated"}

\* C11: redirectIfAuthenticated and the login page loader redirect to the
\* destination exactly when the session is Authenticated at the time of the
\* call (complete token set, clock strictly before expiresAt); on an
\* Unauthenticated or Expired session they return normally, send no request
\* and change no session key.
C11_RedirectIffAuthenticated ==
    \A r \in Reqs :
        (req[r].pc = "done" /\ req[r].op \in RedirectGuards)
        => /\ SawAuthenticated(r) <=> AuthenticatedAtEntry(r)
           /\ ~AuthenticatedAtEntry(r) => req[r].result = Return(None)
           /\ req[r].sent = <<>>
           /\ SessionUntouched(r)

\* redirectIfAuthenticated on an Expired token set returns normally
C11_Witness ==
    \E r \in Reqs :
        /\ Done(r, "redirectIfAuthenticated")
        /\ ExpiredAtEntry(r)
        /\ req[r].reads[1] > req[r].loaded[KEY_EXPIRES_AT]
        /\ req[r].result = Return(None)
        /\ SessionUntouched(r)

\* every clock value the request read was strictly before the expiresAt it
\* found stored
UnexpiredAtReads(r) ==
    \A i \in DOMAIN req[r].reads : req[r].reads[i] < req[r].loaded[KEY_EXPIRES_AT]

\* q is the call answered just before r, both are optionalAuth calls that
\* found the same complete token set
ConsecutiveOptionalAuth(q, r) ==
    /\ q # r
    /\ req[q].pc = "responded"
    /\ req[q].op = "optionalAuth"
    /\ Done(r, "optionalAuth")
    /\ Complete(req[r].loaded)
    /\ TokenPart(req[q].loaded) = TokenPart(req[r].loaded)

\* C12: two consecutive optionalAuth calls on the same token set, both made
\* while the set is unexpired, return the same result (with configuration
\* present: the stored access token); the second call sends no request and
\* changes no session key.
C12_OptionalAuthIdempotent ==
    \A q, r \in Reqs :
        (/\ ConsecutiveOptionalAuth(q, r)
         /\ UnexpiredAtReads(q)
         /\ UnexpiredAtReads(r))
        => /\ req[r].result = req[q].result
           /\ ConfigPresent
              => req[r].result = Return(Some(req[r].loaded[KEY_ACCESS_TOKEN]))
           /\ req[r].sent = <<>>
           /\ SessionUntouched(r)

\* the second of two calls returns the access token the first one returned,
\* a tick later and still before expiresAt
C12_Witness ==
    \E q, r \in Reqs :
        /\ ConsecutiveOptionalAuth(q, r)
        /\ ConfigPresent
        /\ req[q].reads # <<>>
        /\ req[r].reads # <<>>
        /\ req[q].reads[1] < req[r].reads[1]
        /\ UnexpiredAtReads(r)
        /\ req[q].result = Return(Some(req[r].loaded[KEY_ACCESS_TOKEN]))
        /\ req[r].result = req[q].result

\* the operations that run getValidAccessToken
RefreshOps == {"getValidAccessToken", "getAuthenticatedToken", "optionalAuth"}

IdTokenOf(session) ==
    IF SessionHas(session, KEY_ID_TOKEN) THEN Some(session[KEY_ID_TOKEN]) ELSE None

\* C13: a successful refresh leaves the stored identity token as it was; the
\* identity token of a session changes only in a callback that succeeds
\* (to the identity token of the token response), in the logout loader and
\* in the clearing of the session after a failed refresh.
C13_IdentityTokenStable ==
    \A r \in Reqs :
        req[r].pc # "idle"
        => /\ (req[r].op \in RefreshOps /\ req[r].pc = "done" /\ RefreshSucceeded(r))
              => IdTokenOf(req[r].session) = IdTokenOf(req[r].loaded)
           /\ IdTokenOf(req[r].session) # IdTokenOf(req[r].loaded)
              => \/ /\ Done(r, "callback")
                    /\ req[r].result = Redirect("/account")
                    /\ ExchangeSucceeded(r)
                    /\ IdTokenOf(req[r].session) = Some(req[r].resp[1].id_token)
                 \/ /\ req[r].op = "logout"
                    /\ IdTokenOf(req[r].session) = None
                 \/ /\ Done(r, "getValidAccessToken") \/ Done(r, "getAuthenticatedToken")
                       \/ Done(r, "optionalAuth")
                    /\ ~RefreshSucceeded(r)
                    /\ req[r].session = clearCustomerSession(req[r].loaded)

\* a refresh stored a new access token next to the identity token of the
\* login
C13_Witness ==
    \E r \in Reqs :
        /\ Done(r, "getAuthenticatedToken")
        /\ RefreshSucceeded(r)
        /\ req[r].session[KEY_ACCESS_TOKEN] # req[r].loaded[KEY_ACCESS_TOKEN]
        /\ IdTokenOf(req[r].loaded) # None
        /\ IdTokenOf(req[r].session) = IdTokenOf(req[r].loaded)

\* C14: once a callback has compared the state parameter with the stored
\* state (state mismatch) or gone on to the code exchange (rejected
\* exchange, nonce mismatch, success), none of the stored state, nonce and
\* code verifier remains in the session it leaves.
C14_SingleUse ==
    \A r \in Reqs :
        (/\ Done(r, "callback")
         /\ CallbackCheck(req[r].params, req[r].loaded) \in {"invalid_state", "exchange"})
        => FlowKeys \cap DOMAIN req[r].session = {}

\* the state parameter equals the state stored when the request came in
StateValidated(r) ==
    /\ SessionHas(req[r].loaded, KEY_STATE)
    /\ req[r].params.state = Some(req[r].loaded[KEY_STATE])

\* the nonce of the identity token the token endpoint returned equals the
\* stored nonce; the comparison needs the token response
NonceValidated(r) ==
    /\ ExchangeSucceeded(r)
    /\ getNonce(req[r].resp[1].id_token) = StoredNonce(req[r].loaded)

\* C15 as stated: whenever a callback has sent the code-exchange request,
\* both the state validation and the nonce validation are already complete.
C15_AsStated ==
    \A r \in Reqs :
        (req[r].op = "callback" /\ req[r].sent # <<>>)
        => StateValidated(r) /\ NonceValidated(r)

\* C15 (amended): the state validation is complete before the code-exchange
\* request is sent; while the request is awaited no token response is held,
\* so the nonce is not yet validated; the nonce validation follows the token
\* response and is complete before any token key is written.
C15_Ordering ==
    \A r \in Reqs :
        req[r].op = "callback"
        => /\ req[r].sent # <<>>
              => /\ StateValidated(r)
                 /\ req[r].sent = <<TokenRequest(req[r].params.code[1],
                                                 req[r].loaded[KEY_CODE_VERIFIER])>>
           /\ req[r].pc = "exchange" => req[r].resp = None /\ req[r].sent # <<>>
           /\ req[r].resp # None => req[r].pc = "done" /\ req[r].sent # <<>>
           /\ TokenPart(req[r].session) # TokenPart(req[r].loaded)
              => NonceValidated(r)

\* a callback that sent the request, was answered, validated the nonce and
\* stored the tokens
C15_Witness ==
    \E r \in Reqs :
        /\ Done(r, "callback")
        /\ StateValidated(r)
        /\ Len(req[r].sent) = 1
        /\ NonceValidated(r)
        /\ TokenPart(req[r].session) # TokenPart(req[r].loaded)

\* the access tokens the provider has issued so far, in code exchanges and
\* in refreshes
IssuedAccessTokens == {RefreshResponse(n, 0).access_token : n \in 1..issued}

\* the guard call returned an access token
ReturnedToken(r) ==
    /\ req[r].pc = "done"
    /\ req[r].op \in RefreshOps
    /\ req[r].result.kind = "return"
    /\ req[r].result.value # None

\* C16: a callback writes token keys only with a successful code-exchange
\* response in hand, and writes the tokens of that response; a guard
\* (getAuthenticatedToken, optionalAuth, getValidAccessToken) returns an
\* access token only if it was persisted before: either the session it
\* loaded held a complete token set with that access token, or its own
\* refresh stored it; every stored access token was issued by the provider,
\* so no guard returns a token on a session that never stored tokens.
C16_PersistBeforeGuard ==
    /\ \A r \in Reqs :
          (req[r].op = "callback" /\ TokenPart(req[r].session) # TokenPart(req[r].loaded))
          => /\ ExchangeSucceeded(r)
             /\ Complete(req[r].session)
             /\ req[r].session[KEY_ACCESS_TOKEN] = req[r].resp[1].access_token
             /\ req[r].session[KEY_REFRESH_TOKEN] = req[r].resp[1].refresh_token
             /\ req[r].committed
    /\ \A r \in Reqs :
          ReturnedToken(r)
          => LET t == req[r].result.value[1]
             IN  /\ Complete(req[r].loaded)
                 /\ Complete(req[r].session)
                 /\ req[r].session[KEY_ACCESS_TOKEN] = t
                 /\ t \in IssuedAccessTokens
                 /\ \/ req[r].loaded[KEY_ACCESS_TOKEN] = t /\ req[r].resp = None
                    \/ RefreshSucceeded(r) /\ req[r].resp[1].access_token = t
    /\ \A r \in Reqs :
          (req[r].pc = "done" /\ req[r].op \in RefreshOps /\ ~Complete(req[r].loaded))
          => req[r].result \in {Return(None), ThrowRedirect("/account/authorize"),
                                ThrowError("PUBLIC_STORE_DOMAIN and CUSTOMER_ACCOUNT_CLIENT_ID must be set")}
    /\ TokenKeys \cap DOMAIN cookie # {}
       => Complete(cookie) /\ cookie[KEY_ACCESS_TOKEN] \in IssuedAccessTokens

\* a guard returns the access token a successful callback stored earlier
C16_Witness ==
    \E r \in Reqs :
        /\ ReturnedToken(r)
        /\ req[r].result = Return(Some("a1"))
        /\ req[r].op = "optionalAuth"
        /\ req[r].loaded[KEY_ACCESS_TOKEN] = "a1"
        /\ req[r].resp = None
        /\ issued = 1

\* the code verifier, state and nonce keys are all stored or all absent
FlowKeysTogether(session) ==
    \/ FlowKeys \subseteq DOMAIN session
    \/ FlowKeys \cap DOMAIN session = {}

\* C17: in the cookie and in the session of every request the code verifier,
\* state and nonce keys are all present or all absent; the authorize loader
\* leaves all three stored, a successful callback and the clearing after a
\* failed refresh leave all three absent, and every other request leaves
\* the three as it found them.
C17_FlowKeysTogether ==
    /\ FlowKeysTogether(cookie)
    /\ \A r \in Reqs :
          /\ FlowKeysTogether(req[r].session)
          /\ FlowKeysTogether(req[r].loaded)
          /\ (Done(r, "authorize") /\ req[r].committed)
             => FlowKeys \subseteq DOMAIN req[r].session
          /\ (Done(r, "callback") /\ req[r].result = Redirect("/account"))
             => FlowKeys \cap DOMAIN req[r].session = {}
          /\ (req[r].op \in RefreshOps /\ req[r].pc = "done"
              /\ req[r].session = clearCustomerSession(req[r].loaded))
             => FlowKeys \cap DOMAIN req[r].session = {}
          /\ [k \in FlowKeys \cap DOMAIN req[r].session |-> req[r].session[k]]
                # [k \in FlowKeys \cap DOMAIN req[r].loaded |-> req[r].loaded[k]]
             => \/ Done(r, "authorize") /\ req[r].committed
                \/ Done(r, "callback") /\ req[r].result = Redirect("/account")
                \/ /\ req[r].op \in RefreshOps /\ req[r].pc = "done"
                   /\ req[r].session = clearCustomerSession(req[r].loaded)

\* a successful callback removed the three values the authorize loader had
\* stored together
C17_Witness ==
    \E r \in Reqs :
        /\ Done(r, "callback")
        /\ req[r].result = Redirect("/account")
        /\ FlowKeys \subseteq DOMAIN req[r].loaded
        /\ FlowKeys \cap DOMAIN req[r].session = {}
        /\ FlowKeys \subseteq DOMAIN cookie

\* the code verifier / state / nonce keys of a session
FlowPart(session) == [k \in (DOMAIN session) \cap FlowKeys |-> session[k]]

\* C18: when the logout loader has run with the shop domain configured, the
\* four token keys are absent from the session it commits (Unauthenticated)
\* on every path; it redirects to the provider's end-session URL, with the
\* identity token it found stored as id_token_hint, only when an identity
\* token was stored and discovery succeeded, and to "/" when no identity
\* token was stored (no request sent) or discovery failed.
C18_LogoutClears ==
    \A r \in Reqs :
        (Done(r, "logout") /\ env.shopDomain)
        => /\ TokenKeys \cap DOMAIN req[r].session = {}
           /\ Unauthenticated(req[r].session)
           /\ req[r].committed
           /\ FlowPart(req[r].session) = FlowPart(req[r].loaded)
           /\ IF Truthy(req[r].loaded, KEY_ID_TOKEN)
              THEN /\ req[r].sent = <<DiscoveryRequest>>
                   /\ req[r].resp \in {Some(Discovered), Some(Rejected)}
                   /\ req[r].resp = Some(Discovered)
                      => req[r].result = LogoutUrl(req[r].loaded[KEY_ID_TOKEN])
                   /\ req[r].resp = Some(Rejected) => req[r].result = Redirect("/")
              ELSE /\ req[r].sent = <<>>
                   /\ req[r].resp = None
                   /\ req[r].result = Redirect("/")

\* logout of a logged-in customer while discovery fails
C18_Witness ==
    \E r \in Reqs :
        /\ Done(r, "logout")
        /\ Complete(req[r].loaded)
        /\ req[r].resp = Some(Rejected)
        /\ req[r].result = Redirect("/")
        /\ TokenKeys \cap DOMAIN req[r].session = {}

\* C19: the four token keys of a session change only in a callback that
\* succeeds, in the refresh inside getValidAccessToken (overwritten with the
\* refresh response on success, cleared on failure) and in the logout
\* loader; isCustomerAuthenticated (through requireCustomerAuth,
\* redirectIfAuthenticated and the login loader) and the authorize loader
\* never change them, and isCustomerAuthenticated sends no request, so it
\* never starts a refresh.
C19_TokenKeysFrame ==
    \A r \in Reqs :
        req[r].pc # "idle"
        => /\ TokenPart(req[r].session) # TokenPart(req[r].loaded)
              => \/ /\ Done(r, "callback")
                    /\ req[r].result = Redirect("/account")
                    /\ ExchangeSucceeded(r)
                 \/ /\ req[r].op \in RefreshOps
                    /\ req[r].pc = "done"
                    /\ Len(req[r].sent) >= 1
                    /\ req[r].sent[1] = DiscoveryRequest
                    /\ IF RefreshSucceeded(r)
                       THEN /\ req[r].sent = <<DiscoveryRequest,
                                  RefreshRequest(req[r].loaded[KEY_REFRESH_TOKEN])>>
                            /\ req[r].session[KEY_ACCESS_TOKEN] = req[r].resp[1].access_token
                       ELSE req[r].session = clearCustomerSession(req[r].loaded)
                 \/ /\ req[r].op = "logout"
                    /\ TokenKeys \cap DOMAIN req[r].session = {}
           /\ req[r].op \in SyncGuards \cup {"authorize"}
              => TokenPart(req[r].session) = TokenPart(req[r].loaded)
           /\ req[r].op \in SyncGuards
              => /\ req[r].sent = <<>>
                 /\ req[r].resp = None
                 /\ SessionUntouched(r)

\* the authorize loader ran on a session that holds a token set and left
\* the token keys as they were
C19_Witness ==
    \E r \in Reqs :
        /\ Done(r, "authorize")
        /\ req[r].committed
        /\ Complete(req[r].loaded)
        /\ FlowPart(req[r].session) # FlowPart(req[r].loaded)
        /\ TokenPart(req[r].session) = TokenPart(req[r].loaded)

\* the failure kind a finished callback ran into, "none" for a success and
\* for the returns the claim does not list (error parameter, missing code)
FailureKind(r) ==
    LET check == CallbackCheck(req[r].params, req[r].loaded)
    IN  IF check = "invalid_state" THEN "state_mismatch"
        ELSE IF check = "missing_verifier" THEN "missing_verifier"
        ELSE IF check \in {"env_not_set", "shop_id_unknown"} THEN "missing_configuration"
        ELSE IF check # "exchange" \/ req[r].resp = None THEN "none"
        ELSE IF ~req[r].resp[1].ok THEN "exchange_rejected"
        ELSE IF decodeJwtThrows(req[r].resp[1].id_token) THEN "malformed_identity_token"
        ELSE IF getNonce(req[r].resp[1].id_token) # StoredNonce(req[r].loaded)
        THEN "nonce_mismatch"
        ELSE "none"

\* the error codes the login page renders a message for
LoginErrorCodes == {"invalid_callback", "invalid_state", "missing_verifier",
                    "invalid_nonce", "token_exchange_failed", "login_required"}

\* the failure kind whose return statement carries the code
KindOfCode(code) ==
    IF code = "invalid_state" THEN "state_mismatch"
    ELSE IF code = "missing_verifier" THEN "missing_verifier"
    ELSE IF code = "invalid_nonce" THEN "nonce_mismatch"
    ELSE IF code = "token_exchange_failed" THEN "exchange_rejected"
    ELSE "none"

\* C20: a callback that fails by a rejected code exchange, a malformed
\* identity token, a state mismatch, a nonce mismatch, a missing code
\* verifier or missing configuration redirects to the login page with an
\* error code the page knows, and that code stands for this failure kind
\* alone.
C20_DistinctErrorCodes ==
    \A r \in Reqs :
        (Done(r, "callback") /\ FailureKind(r) # "none")
        => /\ req[r].result \in {LoginError(code) : code \in LoginErrorCodes}
           /\ \A code \in LoginErrorCodes :
                 req[r].result = LoginError(code) => KindOfCode(code) = FailureKind(r)

\* the callback in slot q stored the tokens of its token response
CallbackStored(q) ==
    /\ req[q].op = "callback"
    /\ req[q].pc \in {"done", "responded"}
    /\ req[q].result = Redirect("/account")

\* C21: after a successful callback whose token response carries
\* expires_in = E > 0 the stored expiresAt is the clock value read at
\* issuance plus E * 1000, and a getValidAccessToken call that follows and
\* reads a clock value before that expiresAt returns the access token of
\* the exchange, sends no request and leaves the session as it is.
C21_AbsoluteExpiry ==
    \A q \in Reqs :
        (CallbackStored(q) /\ req[q].resp[1].expires_in > 0)
        => /\ req[q].session[KEY_EXPIRES_AT]
                 = LastRead(q) + req[q].resp[1].expires_in * 1000
           /\ req[q].session[KEY_ACCESS_TOKEN] = req[q].resp[1].access_token
           /\ \A r \in Reqs :
                 (req[q].pc = "responded" /\ Done(r, "getValidAccessToken"))
                 => /\ req[r].loaded = req[q].session
                    /\ req[r].reads # <<>>
                    /\ req[r].reads[1] < req[q].session[KEY_EXPIRES_AT]
                       => /\ req[r].result = Return(Some(req[q].resp[1].access_token))
                          /\ req[r].sent = <<>>
                          /\ SessionUntouched(r)

\* the exchange was at the start of the clock; a tick later, before
\* expiresAt, getValidAccessToken returns the exchanged access token
C21_Witness ==
    \E q, r \in Reqs :
        /\ CallbackStored(q)
        /\ req[q].pc = "responded"
        /\ req[q].resp[1].expires_in > 0
        /\ LastRead(q) = ClockStart
        /\ Done(r, "getValidAccessToken")
        /\ req[r].reads = <<ClockStart + TickMs>>
        /\ req[r].reads[1] < req[q].session[KEY_EXPIRES_AT]
        /\ req[r].result = Return(Some(req[q].resp[1].access_token))

\* the request found a complete token set and read a clock value at or past
\* its expiresAt in getValidAccessToken
SawExpired(r) ==
    /\ req[r].op \in {"getValidAccessToken", "getAuthenticatedToken"}
    /\ req[r].pc \notin {"idle", "run"}
    /\ Complete(req[r].loaded)
    /\ req[r].reads # <<>>
    /\ req[r].reads[1] >= req[r].loaded[KEY_EXPIRES_AT]

\* C22: nothing serializes refreshes: every request that finds the token
\* set Expired goes on to discovery and, once discovery answered, sends a
\* refresh request with the refresh token it loaded, whatever the other
\* request of the session is doing; so two concurrent requests on the same
\* Expired session can both send a refresh request with the same refresh
\* token.
C22_NoSingleFlight ==
    \A r \in Reqs :
        SawExpired(r)
        => /\ req[r].sent # <<>>
           /\ req[r].sent[1] = DiscoveryRequest
           /\ (req[r].pc = "refresh" \/ req[r].resp # None)
              => req[r].sent = <<DiscoveryRequest,
                                 RefreshRequest(req[r].loaded[KEY_REFRESH_TOKEN])>>

\* both requests are waiting for the answer to a refresh request that
\* carries the same refresh token
C22_Witness ==
    \E q, r \in Reqs :
        /\ q # r
        /\ SawExpired(q) /\ SawExpired(r)
        /\ req[q].pc = "refresh" /\ req[r].pc = "refresh"
        /\ req[q].sent[2] = req[r].sent[2]
        /\ req[q].sent[2] = RefreshRequest(cookie[KEY_REFRESH_TOKEN])

IsRefreshRequest(message) ==
    /\ message.to = "token_endpoint"
    /\ message.grant_type = "refresh_token"

SentRefresh(r) == \E i \in DOMAIN req[r].sent : IsRefreshRequest(req[r].sent[i])

\* the clock value getValidAccessToken read in the request (optionalAuth
\* reads the clock once before it calls getValidAccessToken)
ValidAccessTokenRead(r) ==
    IF req[r].op = "optionalAuth" THEN req[r].reads[2] ELSE req[r].reads[1]

\* C23: a refresh request is sent only by a request that runs
\* getValidAccessToken, and only after that call found a complete token set
\* and read a clock value at or past its expiresAt; it carries the refresh
\* token of that set. Authorize, callback, logout, the login loader and the
\* synchronous guards never send one, and nothing is sent outside a request.
C23_LazyRefresh ==
    \A r \in Reqs :
        /\ SentRefresh(r)
           => /\ req[r].op \in RefreshOps
              /\ req[r].pc \in {"refresh", "done"}
              /\ Complete(req[r].loaded)
              /\ Len(req[r].reads) >= (IF req[r].op = "optionalAuth" THEN 2 ELSE 1)
              /\ ValidAccessTokenRead(r) >= req[r].loaded[KEY_EXPIRES_AT]
              /\ req[r].sent = <<DiscoveryRequest,
                                 RefreshRequest(req[r].loaded[KEY_REFRESH_TOKEN])>>
        /\ req[r].op \notin RefreshOps => ~SentRefresh(r)
        /\ req[r].pc = "idle" => req[r].sent = <<>>

\* optionalAuth passed its own check a tick before expiresAt and reached
\* getValidAccessToken at expiresAt: the refresh request is out
C23_Witness ==
    \E r \in Reqs :
        /\ req[r].op = "optionalAuth"
        /\ req[r].pc = "refresh"
        /\ SentRefresh(r)
        /\ req[r].reads[1] < req[r].loaded[KEY_EXPIRES_AT]
        /\ req[r].reads[2] = req[r].loaded[KEY_EXPIRES_AT]

\* the code-exchange request of a callback
ExchangeRequestOf(r) ==
    TokenRequest(req[r].params.code[1], req[r].loaded[KEY_CODE_VERIFIER])

Authorized(r) == Done(r, "authorize") /\ req[r].result.kind = "redirect"

\* C25: the code_challenge of the authorization URL is the S256 challenge of
\* the code verifier the same authorize request stores in the session; and
\* a callback that sends the code exchange sends the code verifier of the
\* attempt whose state the provider passed back, so the verifier matches the
\* challenge that attempt sent.
C25_ChallengeMatchesVerifier ==
    \A r \in Reqs :
        /\ Authorized(r)
           => /\ SessionHas(req[r].session, KEY_CODE_VERIFIER)
              /\ req[r].result.code_challenge
                    = generateCodeChallenge(req[r].session[KEY_CODE_VERIFIER])
              /\ req[r].result.code_challenge_method = "S256"
              /\ req[r].result.state = req[r].session[KEY_STATE]
              /\ req[r].session[KEY_CODE_VERIFIER] = generateCodeVerifier(attempts)
              /\ req[r].session[KEY_STATE] = generateState(attempts)
        /\ (req[r].op = "callback" /\ req[r].sent # <<>>)
           => \E n \in 1..attempts :
                 /\ req[r].params.state = Some(generateState(n))
                 /\ req[r].sent[1].code_verifier = generateCodeVerifier(n)
                 /\ generateCodeChallenge(req[r].sent[1].code_verifier)
                       = AuthorizationUrl(generateState(n), generateNonce(n),
                             generateCodeChallenge(generateCodeVerifier(n))).code_challenge

\* the second attempt's authorization URL carries the challenge of the
\* second verifier
C25_Witness ==
    \E r \in Reqs :
        /\ Authorized(r)
        /\ attempts = 2
        /\ SessionHas(req[r].loaded, KEY_CODE_VERIFIER)
        /\ req[r].loaded[KEY_CODE_VERIFIER] # req[r].session[KEY_CODE_VERIFIER]
        /\ req[r].result.code_challenge
              = generateCodeChallenge(req[r].session[KEY_CODE_VERIFIER])

\* the code verifiers generated so far
Verifiers == {generateCodeVerifier(n) : n \in 1..attempts}

\* the message has a field that holds a code verifier
CarriesVerifier(message) ==
    \E f \in DOMAIN message : message[f] \in Verifiers

\* C26: no authorization URL carries a code verifier in any parameter (it
\* carries the challenge), no discovery or refresh request carries one, and
\* a code verifier is sent only as the code_verifier field of the
\* code-exchange request of a callback whose state parameter matched the
\* stored state.
C26_VerifierStaysHome ==
    \A r \in Reqs :
        /\ Authorized(r)
           => /\ ~CarriesVerifier(req[r].result)
              /\ req[r].session[KEY_CODE_VERIFIER] \in Verifiers
              /\ req[r].result.code_challenge
                    = generateCodeChallenge(req[r].session[KEY_CODE_VERIFIER])
        /\ \A i \in DOMAIN req[r].sent :
              LET message == req[r].sent[i]
              IN  IF "code_verifier" \in DOMAIN message
                  THEN /\ req[r].op = "callback"
                       /\ StateValidated(r)
                       /\ message.to = "token_endpoint"
                       /\ message.grant_type = "authorization_code"
                       /\ message.code_verifier = req[r].loaded[KEY_CODE_VERIFIER]
                       /\ message.code_verifier \in Verifiers
                       /\ message.code # message.code_verifier
                  ELSE ~CarriesVerifier(message)

\* the verifier of the attempt is on its way to the token endpoint
C26_Witness ==
    \E r \in Reqs :
        /\ At(r, "callback", "exchange")
        /\ StateValidated(r)
        /\ req[r].sent[1].code_verifier \in Verifiers

\* the values the query of a built URL holds under a parameter name
QueryValues(url, name) ==
    {url.query[i][2] : i \in {j \in DOMAIN url.query : url.query[j][1] = name}}

\* the number of parameters of the query with that name
QueryCount(url, name) ==
    Cardinality({j \in DOMAIN url.query : url.query[j][1] = name})

ThreeSegments(token) ==
    /\ Len(token) = 3
    /\ \A i \in 1..3 : token[i] # ""

\* C28: decodeJwt returns only for a token of exactly three non-empty
\* segments; a token with fewer than three segments, with an empty segment
\* or with more than three segments fails.
C28_ExactlyThreeSegments ==
    \A r \in Reqs :
        Done(r, "decodeJwt")
        => /\ req[r].result.kind = "return" => ThreeSegments(req[r].params)
           /\ ~ThreeSegments(req[r].params) => req[r].result.kind = "throw_error"

\* the terminal outcomes of a callback
CallbackDone(r) ==
    /\ req[r].result = Redirect("/account")
    /\ Complete(req[r].session)
    /\ req[r].committed

CallbackLoginError(r) ==
    /\ req[r].result.kind = "redirect"
    /\ \E code \in LoginErrorCodes \cup {"access_denied"} :
          req[r].result = LoginError(code)
    /\ SessionUntouched(r)

CallbackThrew(r) ==
    /\ req[r].result.kind = "throw_error"
    /\ SessionUntouched(r)

\* the steps behind a callback that is Done, in their order: the state
\* matched before the one code-exchange request went out, the token
\* response arrived, its nonce matched, and its tokens were stored
PassedEveryStep(r) ==
    /\ StateValidated(r)
    /\ req[r].sent = <<ExchangeRequestOf(r)>>
    /\ ExchangeSucceeded(r)
    /\ NonceValidated(r)
    /\ req[r].session[KEY_ACCESS_TOKEN] = req[r].resp[1].access_token
    /\ req[r].session[KEY_REFRESH_TOKEN] = req[r].resp[1].refresh_token
    /\ req[r].session[KEY_ID_TOKEN] = req[r].resp[1].id_token
    /\ req[r].session[KEY_EXPIRES_AT]
          = req[r].reads[1] + req[r].resp[1].expires_in * 1000
    /\ FlowKeys \cap DOMAIN req[r].session = {}

C29_Outcomes ==
    \A r \in Reqs :
        req[r].op = "callback"
        => /\ req[r].pc \in {"run", "exchange", "done"}
           /\ req[r].pc = "run"
              => req[r].result = NoResult /\ req[r].sent = <<>> /\ req[r].resp = None
           /\ req[r].pc = "exchange"
              => /\ req[r].result = NoResult
                 /\ StateValidated(r)
                 /\ req[r].sent = <<ExchangeRequestOf(r)>>
                 /\ req[r].resp = None
                 /\ SessionUntouched(r)
           /\ req[r].pc = "done"
              => /\ CallbackDone(r) \/ CallbackLoginError(r) \/ CallbackThrew(r)
                 /\ ~(CallbackDone(r) /\ CallbackLoginError(r))
                 /\ ~(CallbackDone(r) /\ CallbackThrew(r))
                 /\ ~(CallbackLoginError(r) /\ CallbackThrew(r))
                 /\ CallbackDone(r) => PassedEveryStep(r)

\* a finished callback keeps its outcome, and Done is entered from the
\* awaited code exchange only
C29_Steps ==
    \A r \in Reqs :
        /\ (Done(r, "callback") /\ req'[r].pc = "done") => req'[r] = req[r]
        /\ (req[r].op = "callback" /\ req[r].pc # "done"
            /\ req'[r].pc = "done" /\ req'[r].result = Redirect("/account"))
           => req[r].pc = "exchange"

\* C29: with a token endpoint that answers, every callback that starts
\* reaches one terminal outcome, and exactly one: Done (redirect to /account
\* with the tokens stored and the session committed), a login redirect with
\* an error code, or a thrown configuration error; Done is reached only
\* through the state validation, the code exchange, the nonce validation
\* and the token storage, in that order.
C29_CallbackTerminates ==
    /\ []C29_Outcomes
    /\ [][C29_Steps]_vars
    /\ \A r \in Reqs : At(r, "callback", "run") ~> Done(r, "callback")

\* a callback that went through every step and is Done
C29_Witness ==
    \E r \in Reqs :
        /\ Done(r, "callback")
        /\ CallbackDone(r)
        /\ PassedEveryStep(r)
        /\ FlowKeys \subseteq DOMAIN req[r].loaded


\* what the callback's request and loaded session fail
HasProviderError(r) == ~Falsy(req[r].params.error)

LacksCodeOrState(r) == Falsy(req[r].params.code) \/ Falsy(req[r].params.state)

StateMismatch(r) ==
    \/ ~SessionHas(req[r].loaded, KEY_STATE)
    \/ req[r].params.state[1] # req[r].loaded[KEY_STATE]

LacksVerifier(r) == ~Truthy(req[r].loaded, KEY_CODE_VERIFIER)

RejectedWith(r, code) ==
    /\ req[r].result = LoginError(code)
    /\ req[r].sent = <<>>
    /\ SessionUntouched(r)

\* C30: the callback checks the provider's error parameter, then the
\* presence of code and state, then the state against the stored one, then
\* the stored code verifier; the first check that fails decides the error
\* code (the provider's error value, invalid_callback, invalid_state,
\* missing_verifier), whatever the later checks would have said, and no
\* request is sent and nothing is written.
C30_FirstFailingCheck ==
    \A r \in Reqs :
        Done(r, "callback")
        => IF HasProviderError(r) THEN RejectedWith(r, req[r].params.error[1])
           ELSE IF LacksCodeOrState(r) THEN RejectedWith(r, "invalid_callback")
           ELSE IF StateMismatch(r) THEN RejectedWith(r, "invalid_state")
           ELSE IF LacksVerifier(r) THEN RejectedWith(r, "missing_verifier")
           ELSE \A code \in {"invalid_callback", "invalid_state", "missing_verifier"} :
                   req[r].result # LoginError(code)

\* a callback carrying the provider's error next to a valid code and the
\* matching state, rejected with the provider's error
C30_Witness ==
    \E r \in Reqs :
        /\ Done(r, "callback")
        /\ HasProviderError(r)
        /\ ~LacksCodeOrState(r)
        /\ ~StateMismatch(r)
        /\ ~LacksVerifier(r)
        /\ RejectedWith(r, req[r].params.error[1])


\* a callback that ended in anything but the redirect to /account
CallbackFailed(r) ==
    /\ Done(r, "callback")
    /\ req[r].result # Redirect("/account")

C31_Step ==
    \A r \in Reqs :
        CallbackFailed(r)
        => /\ SessionUntouched(r)
           /\ req[r].loaded = cookie
           /\ req'[r].pc = "idle"
              => /\ cookie' = cookie
                 /\ TokenPart(cookie') = TokenPart(req[r].loaded)
                 /\ Authenticated(req[r].loaded)
                    => /\ Authenticated(cookie')
                       /\ cookie'[KEY_ACCESS_TOKEN] = req[r].loaded[KEY_ACCESS_TOKEN]

\* C31: a callback that fails, for whichever reason, has written nothing to
\* the session and committed nothing, and its response leaves the stored
\* session as it was: the access, refresh, identity and expiry keys are
\* those the request loaded, and a session that was Authenticated is still
\* Authenticated with the same access token.
C31_FailedCallbackFrame == [][C31_Step]_vars

\* a callback on an Authenticated session that failed at the code exchange
C31_Witness ==
    \E r \in Reqs :
        /\ CallbackFailed(r)
        /\ req[r].result = LoginError("token_exchange_failed")
        /\ Authenticated(req[r].loaded)
        /\ Authenticated(cookie)


\* r replays the request of q, a callback that stored tokens, with no
\* authorize call answered since
Replays(r, q) ==
    /\ q # r
    /\ req[q].op = "callback"
    /\ req[q].pc = "responded"
    /\ req[q].result = Redirect("/account")
    /\ Done(r, "callback")
    /\ req[r].params = req[q].params

\* C32: after a callback succeeded, a callback request with the same code
\* and state ends with invalid_state and sends no token-endpoint request, as
\* long as no new authorize call has stored a new state: an authorization
\* attempt yields at most one successful callback.
C32_NoReplay ==
    \A q, r \in Reqs :
        Replays(r, q)
        => /\ req[r].result = LoginError("invalid_state")
           /\ req[r].sent = <<>>
           /\ SessionUntouched(r)
           /\ ~SessionHas(req[r].loaded, KEY_STATE)

\* the replay of a successful callback, rejected, the tokens of the first
\* still stored
C32_Witness ==
    \E q, r \in Reqs :
        /\ Replays(r, q)
        /\ req[r].result = LoginError("invalid_state")
        /\ req[r].sent = <<>>
        /\ req[r].loaded = req[q].session


\* the callback request of r carries a code and the state of an attempt
\* older than the most recent one
CarriesEarlierState(r) ==
    /\ req[r].op = "callback"
    /\ ~HasProviderError(r)
    /\ ~LacksCodeOrState(r)
    /\ \E n \in 1..(attempts - 1) : req[r].params.state[1] = generateState(n)

\* C33: an authorize run on a session that already holds an attempt
\* replaces its verifier, state and nonce by new ones; a callback with the
\* state of the earlier attempt ends with invalid_state and no
\* token-endpoint request, and a callback reaches the code exchange, and so
\* success, only with the state of the most recent attempt.
C33_LatestAttemptOnly ==
    \A r \in Reqs :
        /\ (Done(r, "authorize") /\ req[r].committed
            /\ FlowKeys \subseteq DOMAIN req[r].loaded)
           => /\ \A k \in FlowKeys : req[r].session[k] # req[r].loaded[k]
              /\ req[r].session[KEY_STATE] = generateState(attempts)
              /\ req[r].loaded[KEY_STATE] = generateState(attempts - 1)
        /\ (CarriesEarlierState(r) /\ req[r].pc # "run")
           => /\ req[r].pc = "done"
              /\ RejectedWith(r, "invalid_state")
        /\ (req[r].op = "callback" /\ req[r].sent # <<>>)
           => req[r].params.state[1] = generateState(attempts)

\* two authorize runs, then the callback of the first: rejected, the
\* second attempt still stored
C33_Witness ==
    \E r \in Reqs :
        /\ Done(r, "callback")
        /\ CarriesEarlierState(r)
        /\ SessionHas(req[r].loaded, KEY_STATE)
        /\ req[r].loaded[KEY_STATE] = generateState(attempts)
        /\ RejectedWith(r, "invalid_state")


\* the callback of r got past its state check
PassedStateCheck(r) ==
    /\ req[r].op = "callback"
    /\ ~HasProviderError(r)
    /\ ~LacksCodeOrState(r)
    /\ ~StateMismatch(r)

\* C34: in the sessions this code writes, a stored state comes with a stored
\* nonce, so a callback that passes the state check never skips the nonce
\* validation: tokens are stored only when the nonce of the identity token
\* equals the stored nonce.
C34_NonceSkipUnreachable ==
    \A r \in Reqs :
        /\ SessionHas(req[r].loaded, KEY_STATE) => Truthy(req[r].loaded, KEY_NONCE)
        /\ SessionHas(cookie, KEY_STATE) => Truthy(cookie, KEY_NONCE)
        /\ PassedStateCheck(r) => Truthy(req[r].session, KEY_NONCE) \/ req[r].committed
        /\ (Done(r, "callback") /\ TokenPart(req[r].session) # TokenPart(req[r].loaded))
           => /\ PassedStateCheck(r)
              /\ Truthy(req[r].loaded, KEY_NONCE)
              /\ ExchangeSucceeded(r)
              /\ getNonce(req[r].resp[1].id_token) = Some(req[r].loaded[KEY_NONCE])

\* a callback that stored tokens, the nonce of the identity token being the
\* stored one
C34_Witness ==
    \E r \in Reqs :
        /\ Done(r, "callback")
        /\ PassedStateCheck(r)
        /\ TokenPart(req[r].session) # TokenPart(req[r].loaded)
        /\ Truthy(req[r].loaded, KEY_NONCE)
        /\ getNonce(req[r].resp[1].id_token) = Some(req[r].loaded[KEY_NONCE])


\* the refresh of r ended at the endpoint discovery: the discovery request
\* is the only one sent
DiscoveryAloneFailed(r) ==
    /\ req[r].op \in RefreshOps
    /\ req[r].pc = "done"
    /\ req[r].sent = <<DiscoveryRequest>>

\* C35: a refresh asks the endpoint discovery first and the token endpoint
\* second; when the discovery fails no refresh request is sent, and the
\* failure is handled as a rejected refresh is: getValidAccessToken returns
\* null and all seven session keys are cleared, the refresh token the
\* session held included.
C35_DiscoveryFailure ==
    \A r \in Reqs :
        req[r].op \in RefreshOps
        => /\ req[r].sent # <<>>
              => /\ req[r].sent[1] = DiscoveryRequest
                 /\ Len(req[r].sent) <= 2
                 /\ Len(req[r].sent) = 2
                    => req[r].sent[2] = RefreshRequest(req[r].loaded[KEY_REFRESH_TOKEN])
           /\ DiscoveryAloneFailed(r)
              => /\ req[r].resp = None
                 /\ SessionHas(req[r].loaded, KEY_REFRESH_TOKEN)
                 /\ \A k \in SESSION_KEYS : ~SessionHas(req[r].session, k)
                 /\ req[r].isPending
                 /\ req[r].result = GuardResult(req[r].op, None)
                 /\ req[r].op # "getAuthenticatedToken" => req[r].result = Return(None)

\* getValidAccessToken on an Expired session with an authorization attempt
\* in flight, the discovery failing
C35_Witness ==
    \E r \in Reqs :
        /\ DiscoveryAloneFailed(r)
        /\ req[r].op = "getValidAccessToken"
        /\ req[r].result = Return(None)
        /\ FlowKeys \subseteq DOMAIN req[r].loaded
        /\ req[r].session = EmptySession


\* r refreshed an Expired session and had its refresh request rejected
RefreshLost(r) ==
    /\ req[r].pc = "done"
    /\ SawExpired(r)
    /\ req[r].sent = <<DiscoveryRequest, RefreshRequest(req[r].loaded[KEY_REFRESH_TOKEN])>>
    /\ req[r].resp = Some(Rejected)

\* the refresh of a concurrent request on the session r loaded succeeded
\* and its tokens are in the cookie
OtherRefreshApplied(r) ==
    /\ Complete(cookie)
    /\ cookie[KEY_REFRESH_TOKEN] # req[r].loaded[KEY_REFRESH_TOKEN]
    /\ cookie[KEY_ACCESS_TOKEN] # req[r].loaded[KEY_ACCESS_TOKEN]
    /\ cookie[KEY_ID_TOKEN] = req[r].loaded[KEY_ID_TOKEN]

C36_Step ==
    \A r \in Reqs :
        RefreshLost(r)
        => /\ \A k \in SESSION_KEYS : ~SessionHas(req[r].session, k)
           /\ req[r].isPending
           /\ req'[r].pc = "idle"
              => /\ \A k \in SESSION_KEYS : ~SessionHas(cookie', k)
                 /\ Unauthenticated(cookie')

\* C36: of two concurrent requests that refresh the same Expired session,
\* the one whose refresh request is rejected clears its session; when its
\* response is the last one applied the stored session has none of the
\* seven keys, also when the refresh of the other request succeeded and its
\* tokens had been stored.
C36_LostRefreshWins == [][C36_Step]_vars

\* the rejected request is about to answer while the cookie holds the
\* unexpired tokens of the other request's refresh
C36_Witness ==
    \E r \in Reqs :
        /\ RefreshLost(r)
        /\ OtherRefreshApplied(r)
        /\ Authenticated(cookie)


\* C37: requireCustomerAuth throws a redirect to /account/authorize exactly
\* when the session is not Authenticated (token set incomplete, or the clock
\* at or past expiresAt), an Expired session with a refresh token included,
\* and returns otherwise; it sends no request, receives none, and leaves
\* every session key as it was.
C37_SyncGuardNeverRefreshes ==
    \A r \in Reqs :
        req[r].op = "requireCustomerAuth"
        => /\ req[r].pc \in {"run", "done"}
           /\ req[r].sent = <<>>
           /\ req[r].resp = None
           /\ SessionUntouched(r)
           /\ req[r].pc = "done"
              => /\ Len(req[r].reads) <= 1
                 /\ req[r].result = ThrowRedirect("/account/authorize")
                    <=> ~AuthenticatedAtEntry(r)
                 /\ req[r].result = Return(None) <=> AuthenticatedAtEntry(r)

\* the guard on an Expired session that holds a refresh token
C37_Witness ==
    \E r \in Reqs :
        /\ Done(r, "requireCustomerAuth")
        /\ ExpiredAtEntry(r)
        /\ Truthy(req[r].loaded, KEY_REFRESH_TOKEN)
        /\ req[r].result = ThrowRedirect("/account/authorize")
        /\ req[r].sent = <<>>
        /\ SessionUntouched(r)


\* q is an answered logout that ran while an authorization attempt was in
\* flight, and r the callback of that attempt, handled next
CallbackAfterLogout(r, q) ==
    /\ req[q].op = "logout"
    /\ req[q].pc = "responded"
    /\ FlowKeys \subseteq DOMAIN req[q].loaded
    /\ req[r].op = "callback"
    /\ req[r].pc # "run"
    /\ ~HasProviderError(r)
    /\ ~Falsy(req[r].params.code)
    /\ req[r].params.state = Some(req[q].loaded[KEY_STATE])

ClockCrossed(r) ==
    /\ Complete(req[r].loaded)
    /\ Len(req[r].reads) >= 2
    /\ req[r].reads[1] < req[r].loaded[KEY_EXPIRES_AT]
    /\ req[r].reads[2] >= req[r].loaded[KEY_EXPIRES_AT]

\* C39: optionalAuth reads the clock in its isCustomerAuthenticated check
\* and again inside getValidAccessToken; it sends a request or changes the
\* session only when the first read is before expiresAt and the second at
\* or past it; with a token set that is absent, incomplete or already
\* Expired at entry it returns null, sends nothing and leaves the session
\* as it was.
C39_OptionalAuthWindow ==
    \A r \in Reqs :
        req[r].op = "optionalAuth"
        => /\ (req[r].sent # <<>> \/ req[r].resp # None \/ ~SessionUntouched(r))
              => ClockCrossed(r)
           /\ req[r].pc \in {"discovery", "refresh"} => ClockCrossed(r)
           /\ req[r].pc = "checked" => AuthenticatedAtEntry(r) /\ Len(req[r].reads) = 1
           /\ (req[r].pc = "done" /\ ~AuthenticatedAtEntry(r))
              => /\ req[r].result = Return(None)
                 /\ req[r].sent = <<>>
                 /\ Len(req[r].reads) <= 1
                 /\ SessionUntouched(r)
           /\ (req[r].pc = "done" /\ AuthenticatedAtEntry(r) /\ ~ClockCrossed(r))
              => /\ req[r].reads = <<req[r].reads[1], req[r].reads[2]>>
                 /\ req[r].result = Return(Some(req[r].loaded[KEY_ACCESS_TOKEN]))

\* the token set expired between the two reads and the refresh was
\* rejected: optionalAuth cleared the session
C39_Witness ==
    \E r \in Reqs :
        /\ Done(r, "optionalAuth")
        /\ ClockCrossed(r)
        /\ req[r].resp = Some(Rejected)
        /\ req[r].session = clearCustomerSession(req[r].loaded)
        /\ req[r].result = Return(None)

====
